---- MODULE Spec2Model ----
(***************************************************************************)
(* Navigation controller of the heat-mapping robot.                        *)
(*                                                                         *)
(* Three firmware builds are modelled, selected once in Init:              *)
(*   BACKEND     robot_physical/robot_physical.ino with BACKEND_MODE 1     *)
(*   STANDALONE  the same sketch with BACKEND_MODE 0 (identical to         *)
(*               arduino/robot_physical.ino)                               *)
(*   HEATMAP     heat_mapping_robot/heat_mapping_robot.ino, USE_MOTORS 1   *)
(*               and COMMAND_MODE 1                                        *)
(*                                                                         *)
(* Time is kept relative: instead of millis() and the stored stamps, the   *)
(* state holds the differences the code computes (millis() - phaseStartMs, *)
(* millis() - now), in milliseconds.  phaseStartMs is assigned on every    *)
(* entry to a phase that reads it, so the difference is kept only while    *)
(* such a phase runs and is 0 during COLLECT.  Distances are whole         *)
(* centimetres.                                                            *)
(***************************************************************************)
EXTENDS Integers, Sequences, FiniteSets, TLC

\* ------------------------------------------------------------------ bounds
\* Serial receive buffer capacity explored.
MaxRx == 2
\* moveCount is folded back by one STOP_SAMPLE_EVERY period above this value.
MaxMoveCount == 12
\* WebSocket connections the dashboard hook is followed through.
MaxSockets == 4

\* ------------------------------------------------------- program constants
SWEEP_MIN_DEG == -90
SWEEP_MAX_DEG == 90
SWEEP_STEP_DEG == 10
SERVO_AT_MIN == 180
SERVO_AT_MAX == 0
READINGS_MAX == 20
OBSTACLE_THRESHOLD_CM == 25
STUCK_THRESHOLD_CM == 15
WALL_TARGET_CM == 30
WALL_TOLERANCE_CM == 8
CONSECUTIVE_STUCK_FOR_SWEEP == 3
SWEEP_BINS == 12
DEFAULT_FAR_CM == 150
MAX_DISTANCE_CM == 400
MIN_DISTANCE_CM == 2
MAX_VALID_CM == 3000
MOVE_FORWARD_MS == 500
TURN_15_MS == 150
TURN_45_MS == 400
TURN_90_MS == 800
STOP_SAMPLE_MS == 2000
STOP_SAMPLE_EVERY == 10
BACKEND_CMD_TIMEOUT_MS == 3000
\* delay(10) in the poll loop of readBackendCommand
POLL_DELAY_MS == 10
\* heat_mapping_robot.ino
SEND_CHUNK == 8
DHT_READ_INTERVAL_MS == 2000
BACKEND_READINGS_MAX == 8
FORWARD_CONE_DEG == 15
HEAT_COLLECT_DELAY_MS == 80
HEAT_MOVE_DELAY_MS == 50
HEAT_DEFAULT_MS == 500

LOW == "LOW"
HIGH == "HIGH"

Builds == {"BACKEND", "STANDALONE", "HEATMAP"}

\* The five-symbol downlink alphabet, as a set (used by the properties).
ValidCmds == {"F", "B", "L", "R", "S"}
\* Bytes the host may put on the line: the commands and one other byte
\* (the backend terminates every command with a newline).
HostBytes == ValidCmds \cup {"nl"}
\* The bytes explored per build (HEATMAP never drains its input between
\* exchanges, so fewer are taken there).
hostBytes(b) == IF b = "HEATMAP" THEN {"F", "L", "S", "nl"} ELSE HostBytes

\* ---------------------------------------------------- environment inputs
\* Bytes the host writes in answer to one frame: the command and a newline.
HostBurst == 2
\* Time one stepServoAndCollect() takes: delay(30), five pulseIn waits, delay(5)s.
StepDurations == {100}
\* Time one readDistanceCmMedian() takes in heat_mapping_robot.ino.
MedianDurations == {30}
\* Time one non-blocking pass through loop() is taken to last.
LoopPassMs == {50}
\* A byte arriving while readBackendCommand() polls: the delay after the call.
LateTimes == {500, 2990}

Abs(x) == IF x < 0 THEN -x ELSE x

VARIABLES
    build,              \* which firmware build runs
    pc,                 \* "loop": between loop() passes; "await": inside readBackendCommand()
    phase,              \* Phase / BackendPhase
    currentAngle, sweepDirection,
    stepCount, reachedMax,      \* the statics of sweepComplete()
    sweep_cm,           \* the 12 sector distances
    polarCount,         \* number of raw readings kept (BACKEND)
    scene,              \* what the sensor sees around the robot until it moves again
    consecutiveObstacles, moveCount,
    pendingMotorCmd, pendingTurnDeg, backendCmd,
    rx,                 \* bytes received on Serial and not read yet
    pins,               \* <<IN1, IN2, IN3, IN4>>
    sincePhaseStart,    \* millis() - phaseStartMs at the top of the next pass (0 in COLLECT)
    sinceNow,           \* millis() - now, while a loop() pass is suspended in "await"
    heldMs,             \* time the drive outputs have held a pattern in this Move
    buffer, bufferIdx,  \* heat_mapping_robot.ino: buffer[0 .. bufferIdx-1] and the index
    hostBudget,         \* bytes the host may still write in answer to the last frame
    linkUp,             \* whether the serial link to the host carries bytes
    lastTempC, lastHumPct,  \* the stored environment sample, in hundredths (NaN: none)
    sinceDhtRead,       \* millis() - lastDhtReadMs at the next DHT test, up to the interval
    polarReadings,      \* robot_physical.ino: the raw readings of the sweep, in hundredths
    frame,              \* the last uplink frame written to Serial
    writing,            \* the motor functions being executed and the digitalWrite calls done
    dash,               \* useRobotData.ts: the hook's effect (socket, reconnect timer, state)
    ev,                 \* what the last step did (observation only)
    obs                 \* counts and last values kept for the properties (observation only)

vars == <<build, pc, phase, currentAngle, sweepDirection, stepCount, reachedMax,
          sweep_cm, polarCount, scene, consecutiveObstacles, moveCount,
          pendingMotorCmd, pendingTurnDeg, backendCmd, rx, pins,
          sincePhaseStart, sinceNow, heldMs, buffer, bufferIdx, hostBudget,
          linkUp, lastTempC, lastHumPct, sinceDhtRead, polarReadings, frame,
          writing, dash, ev, obs>>

\* The environment sample and the frame content: they feed nothing back into
\* the phases, the sweep or the motors, and are followed in EnvSpec.
envVars == <<lastTempC, lastHumPct, sinceDhtRead, polarReadings, frame>>

\* ------------------------------------------------------------------ motors
stopMotors == <<LOW, LOW, LOW, LOW>>
moveForward == <<LOW, HIGH, LOW, HIGH>>
moveBackward == <<HIGH, LOW, HIGH, LOW>>
\* Variant: a left turn that reverses side A.
turnLeftSideA == <<HIGH, LOW, LOW, HIGH>>

turnLeft == <<LOW, HIGH, HIGH, LOW>>
turnRight == <<HIGH, LOW, LOW, HIGH>>

\* No motor function is running.
noWrites == [queue |-> <<>>, done |-> 0]

applyMotorCmd(cmd) ==
    IF cmd = "F" THEN moveForward
    ELSE IF cmd = "B" THEN moveBackward
    ELSE IF cmd = "L" THEN turnLeft
    ELSE IF cmd = "R" THEN turnRight
    ELSE stopMotors

\* ------------------------------------------------------------------- sweep
\* Variant: the forward sector is not restored.
initSweepForwardKept ==
    [i \in 0..(SWEEP_BINS - 1) |-> IF i = 0 THEN 10 ELSE DEFAULT_FAR_CM]

initSweep == [i \in 0..(SWEEP_BINS - 1) |-> DEFAULT_FAR_CM]

\* Variant: the direction turns only once the extreme has been passed.
stepServoStrict(angle, dir) ==
    LET a == angle + (IF dir THEN SWEEP_STEP_DEG ELSE -SWEEP_STEP_DEG)
    IN  IF a > SWEEP_MAX_DEG THEN [angle |-> SWEEP_MAX_DEG, dir |-> FALSE]
        ELSE IF a < SWEEP_MIN_DEG THEN [angle |-> SWEEP_MIN_DEG, dir |-> TRUE]
        ELSE [angle |-> a, dir |-> dir]

\* angleToServo(): the affine map between the two calibrated endpoints; the
\* (int) cast of the non-negative sum is the floor.
angleToServo(deg) ==
    SERVO_AT_MIN + (((deg - SWEEP_MIN_DEG) * (SERVO_AT_MAX - SERVO_AT_MIN))
                        \div (SWEEP_MAX_DEG - SWEEP_MIN_DEG))

\* The angle update of stepServoAndCollect() / stepServo().
stepServo(angle, dir) ==
    LET a == angle + (IF dir THEN SWEEP_STEP_DEG ELSE -SWEEP_STEP_DEG)
    IN  IF a >= SWEEP_MAX_DEG THEN [angle |-> SWEEP_MAX_DEG, dir |-> FALSE]
        ELSE IF a <= SWEEP_MIN_DEG THEN [angle |-> SWEEP_MIN_DEG, dir |-> TRUE]
        ELSE [angle |-> a, dir |-> dir]

\* Variant: a forward cone of +/-20 degrees.
binOfWideCone(angle) ==
    IF angle >= -20 /\ angle <= 20 THEN 0
    ELSE IF angle <= -75 THEN 3
    ELSE IF angle >= 75 THEN 9
    ELSE -1

\* The sector an angle is classified into (-1: unmapped).
binOf(angle) ==
    IF angle >= -15 /\ angle <= 15 THEN 0
    ELSE IF angle <= -75 THEN 3
    ELSE IF angle >= 75 THEN 9
    ELSE -1

\* Variant: the median is used as it was read.
keepInvalid(dist) == dist

\* The far sentinel replaces an invalid median.
farIfInvalid(dist) ==
    IF dist < MIN_DISTANCE_CM \/ dist > MAX_DISTANCE_CM \/ dist <= 0
    THEN DEFAULT_FAR_CM ELSE dist

blend(prev, dist) ==
    IF prev >= DEFAULT_FAR_CM - 1 THEN dist
    ELSE (6 * prev + 4 * dist) \div 10

\* Variant: the raw reading is stored whatever the count.
polarRoomAlways(cnt) == TRUE

\* The guard of the write into polarReadings[].
polarRoom(cnt) == cnt < READINGS_MAX

collectInto(sw, angle, dist) ==
    LET bin == binOf(angle)
    IN  IF bin >= 0 THEN [sw EXCEPT ![bin] = blend(sw[bin], dist)] ELSE sw

\* sweepComplete(): the statics after the call and the value returned.
sweepComplete(angle, cnt, reached) ==
    LET r == reached \/ (angle >= SWEEP_MAX_DEG - 5)
        c == cnt + 1
        stepsOneWay == (SWEEP_MAX_DEG - SWEEP_MIN_DEG) \div SWEEP_STEP_DEG
        done == r /\ (c >= stepsOneWay)
    IN  [done |-> done,
         stepCount |-> IF done THEN 0 ELSE c,
         reachedMax |-> IF done THEN FALSE ELSE r]

\* What the sensor reports at an angle, given the scene (a median, 0: none valid).
sceneDist(sc, angle) ==
    IF Abs(angle) <= 15 THEN sc.fwd
    ELSE IF angle < 0 THEN sc.left
    ELSE sc.right

Scene(f, l, r) == [fwd |-> f, left |-> l, right |-> r]
\* The scenes explored by the control loop: one per branch of the planner.
Scenes == {Scene(10, 40, 20), Scene(10, 200, 20), Scene(20, 20, 20),
           Scene(200, 45, 200), Scene(200, 38, 200), Scene(0, 0, 0)}
\* The BACKEND build never reads the sector profile; HEATMAP looks at the cone.
sceneChoices(b) ==
    IF b = "BACKEND" THEN {Scene(10, 40, 20)}
    ELSE IF b = "HEATMAP" THEN {Scene(10, 40, 20), Scene(10, 20, 200), Scene(200, 38, 200)}
    ELSE Scenes

\* -------------------------------------------------------------- downlink
\* Variant: every byte is taken for a command.
anyByte(c) == TRUE

isCmdByte(c) == c = "F" \/ c = "B" \/ c = "L" \/ c = "R" \/ c = "S"

\* readBackendCommand(): the poll loop.  q: unread bytes; waited: millis() - start;
\* last: backendCmd; late: bytes that reach the input lateAt ms after the call.
\* Gives the value returned, whether the loop ran out, the bytes left unread,
\* the time spent, the bytes read and dropped, and how many of the late bytes
\* had not arrived when it returned.
RECURSIVE pollLoop(_, _, _, _, _, _)
pollLoop(q, waited, last, lateAt, late, dropped) ==
    IF ~(waited < BACKEND_CMD_TIMEOUT_MS)
    THEN [cmd |-> last, timedOut |-> TRUE, rx |-> q, waited |-> waited,
          dropped |-> dropped, notArrived |-> Len(late)]
    ELSE LET arrived == late # <<>> /\ waited >= lateAt
             q1 == IF arrived THEN q \o late ELSE q
             late1 == IF arrived THEN <<>> ELSE late
             \* with nothing to read the loop only sleeps: the polls up to the
             \* next arrival (or to the timeout) are taken in one step
             wake == IF late1 # <<>> /\ lateAt > waited THEN lateAt
                     ELSE BACKEND_CMD_TIMEOUT_MS
             polls == (wake - waited + POLL_DELAY_MS - 1) \div POLL_DELAY_MS
         IN  IF q1 # <<>> /\ isCmdByte(Head(q1))
             THEN [cmd |-> Head(q1), timedOut |-> FALSE, rx |-> Tail(q1),
                   waited |-> waited, dropped |-> dropped,
                   notArrived |-> Len(late1)]
             ELSE IF q1 # <<>>
             THEN pollLoop(Tail(q1), waited + POLL_DELAY_MS, last, lateAt, late1,
                           Append(dropped, Head(q1)))
             ELSE pollLoop(q1, waited + polls * POLL_DELAY_MS, last, lateAt, late1,
                           dropped)

readBackendCommand(q, last, lateAt, late) == pollLoop(q, 0, last, lateAt, late, <<>>)

\* Variant: the read at the top of loop() empties the serial input.
RECURSIVE loopTopDrain(_, _)
loopTopDrain(q, last) ==
    IF q = <<>> THEN [rx |-> q, backendCmd |-> last]
    ELSE loopTopDrain(Tail(q), IF isCmdByte(Head(q)) THEN Head(q) ELSE last)

\* The serial read at the top of loop() (BACKEND build).
loopTopRead(q, last) ==
    IF q # <<>>
    THEN [rx |-> Tail(q), backendCmd |-> IF isCmdByte(Head(q)) THEN Head(q) ELSE last]
    ELSE [rx |-> q, backendCmd |-> last]

\* pendingTurnDeg as the BACKEND build derives it from the command.
backendTurnDeg(cmd) == IF cmd = "L" THEN -45 ELSE IF cmd = "R" THEN 45 ELSE 0

\* ----------------------------------------------------------------- planner
sanitize(d) == IF d <= 0 \/ d > MAX_DISTANCE_CM THEN DEFAULT_FAR_CM ELSE d

\* Variant: a later sector that equals the best so far replaces it.
RECURSIVE bestScanLast(_, _, _, _)
bestScanLast(sw, i, best, bestIdx) ==
    IF i >= SWEEP_BINS THEN bestIdx
    ELSE IF sw[i] >= best THEN bestScanLast(sw, i + 1, sw[i], i)
    ELSE bestScanLast(sw, i + 1, best, bestIdx)

\* The scan for the first sector holding the maximum.
RECURSIVE bestScan(_, _, _, _)
bestScan(sw, i, best, bestIdx) ==
    IF i >= SWEEP_BINS THEN bestIdx
    ELSE IF sw[i] > best THEN bestScan(sw, i + 1, sw[i], i)
    ELSE bestScan(sw, i + 1, best, bestIdx)

\* Variant: the recovery fires one sweep late.
stuckFiresLate(forward_cm, c1) ==
    forward_cm < STUCK_THRESHOLD_CM /\ c1 > CONSECUTIVE_STUCK_FOR_SWEEP

\* Layer 1 fires: forward under the stuck threshold for the K-th time in a row.
stuckFires(forward_cm, c1) ==
    forward_cm < STUCK_THRESHOLD_CM /\ c1 >= CONSECUTIVE_STUCK_FOR_SWEEP

\* Variant: a tie between left and right turns left.
avoidLeftOnTie(left_cm, right_cm) == left_cm >= right_cm

\* Layer 2 turns left when the left side is the clearer one.
avoidLeft(left_cm, right_cm) == left_cm > right_cm

\* Variant: the edges of the dead-band count as corrections.
wallTurnOnEdge(error) ==
    IF error >= WALL_TOLERANCE_CM THEN -15
    ELSE IF error <= -WALL_TOLERANCE_CM THEN 15
    ELSE 0

\* Layer 3: the correction for a wall error (0: inside the dead-band).
wallTurn(error) ==
    IF error > WALL_TOLERANCE_CM THEN -15
    ELSE IF error < -WALL_TOLERANCE_CM THEN 15
    ELSE 0

\* Variant: the counter is kept when the forward sector is clear.
stuckCountKept(forward_cm, consec) ==
    IF forward_cm < STUCK_THRESHOLD_CM THEN consec + 1 ELSE consec

\* consecutiveObstacles++ on a stuck forward reading, 0 otherwise.
stuckCount(forward_cm, consec) ==
    IF forward_cm < STUCK_THRESHOLD_CM THEN consec + 1 ELSE 0

\* Variant: the recovery names the turn by the other sign.
recoveryCmdMirrored(bestAngle) == IF bestAngle > 0 THEN "L" ELSE "R"

\* *out_cmd = (bestAngle < 0) ? 'L' : 'R'.
recoveryCmd(bestAngle) == IF bestAngle < 0 THEN "L" ELSE "R"

plannerDecide(sw, consec) ==
    LET forward_cm == sanitize(sw[0])
        left_cm == sanitize(sw[3])
        right_cm == sanitize(sw[9])
        c1 == stuckCount(forward_cm, consec)
        bestIdx == bestScan(sw, 1, sw[0], 0)
        a0 == bestIdx * 30
        bestAngle == IF a0 > 180 THEN a0 - 360 ELSE a0
        error == left_cm - WALL_TARGET_CM
    IN  IF stuckFires(forward_cm, c1)
        THEN [cmd |-> recoveryCmd(bestAngle), turn |-> bestAngle,
              consec |-> 0, layer |-> 1]
        ELSE IF forward_cm < OBSTACLE_THRESHOLD_CM
        THEN IF avoidLeft(left_cm, right_cm)
             THEN [cmd |-> "L", turn |-> -45, consec |-> c1, layer |-> 2]
             ELSE [cmd |-> "R", turn |-> 45, consec |-> c1, layer |-> 2]
        ELSE IF wallTurn(error) < 0
        THEN [cmd |-> "L", turn |-> -15, consec |-> c1, layer |-> 3]
        ELSE IF wallTurn(error) > 0
        THEN [cmd |-> "R", turn |-> 15, consec |-> c1, layer |-> 3]
        ELSE [cmd |-> "F", turn |-> 0, consec |-> c1, layer |-> 3]

\* Variant: the tier boundaries fall into the upper tier.
turnDegToMsStrict(deg) ==
    LET a == IF deg < 0 THEN -deg ELSE deg
    IN  IF a < 20 THEN TURN_15_MS
        ELSE IF a < 50 THEN TURN_45_MS
        ELSE TURN_90_MS

turnDegToMs(deg) ==
    LET a == IF deg < 0 THEN -deg ELSE deg
    IN  IF a <= 20 THEN TURN_15_MS
        ELSE IF a <= 50 THEN TURN_45_MS
        ELSE TURN_90_MS

\* durationMs of PHASE_MOVE in each build.
moveDurationBackend(cmd, turn) ==
    IF cmd = "F" THEN MOVE_FORWARD_MS
    ELSE IF cmd = "B" THEN MOVE_FORWARD_MS
    ELSE IF Abs(turn) <= 20 THEN TURN_15_MS
    ELSE IF Abs(turn) <= 50 THEN TURN_45_MS
    ELSE TURN_90_MS

moveDurationStandalone(cmd, turn) ==
    IF cmd = "F" THEN MOVE_FORWARD_MS ELSE turnDegToMs(turn)

moveDurationHeat(cmd) ==
    IF cmd = "F" \/ cmd = "B" THEN MOVE_FORWARD_MS
    ELSE IF cmd = "L" \/ cmd = "R" THEN TURN_45_MS
    ELSE HEAT_DEFAULT_MS

moveDuration(b, cmd, turn) ==
    IF b = "BACKEND" THEN moveDurationBackend(cmd, turn)
    ELSE IF b = "STANDALONE" THEN moveDurationStandalone(cmd, turn)
    ELSE moveDurationHeat(cmd)

\* Variant: the cycle counter is not advanced.
moveCountKept(m) == m

\* moveCount++ ; the value is folded by whole STOP_SAMPLE_EVERY periods, which
\* keeps both moveCount % STOP_SAMPLE_EVERY and moveCount > 0.
nextMoveCount(m) ==
    IF m + 1 > MaxMoveCount THEN m + 1 - STOP_SAMPLE_EVERY ELSE m + 1

\* ------------------------------------------- heat_mapping_robot.ino helpers
heatDist(d) ==
    IF d < MIN_DISTANCE_CM \/ d > MAX_DISTANCE_CM \/ d <= 0 \/ d >= MAX_VALID_CM
    THEN 400 ELSE d

caDist(d) == IF d <= 0 \/ d > MAX_VALID_CM THEN MAX_DISTANCE_CM ELSE d

\* buf holds buffer[0 .. bufferIdx-1] as a sequence: element i of the array is buf[i+1].
RECURSIVE caFwdMin(_, _, _, _)
caFwdMin(buf, i, n, fwdMin) ==
    IF i >= n THEN fwdMin
    ELSE LET a == buf[i + 1].angle
             d == caDist(buf[i + 1].distance)
         IN  IF Abs(a) <= FORWARD_CONE_DEG /\ d < fwdMin
             THEN caFwdMin(buf, i + 1, n, d)
             ELSE caFwdMin(buf, i + 1, n, fwdMin)

RECURSIVE caBestAngle(_, _, _, _, _)
caBestAngle(buf, i, n, bestDist, bestAngle) ==
    IF i >= n THEN bestAngle
    ELSE LET d == caDist(buf[i + 1].distance)
         IN  IF d > bestDist
             THEN caBestAngle(buf, i + 1, n, d, buf[i + 1].angle)
             ELSE caBestAngle(buf, i + 1, n, bestDist, bestAngle)

\* Variant: the turn away is taken whatever the forward cone holds.
avoidAlways(buf, n, cmd) ==
    IF caBestAngle(buf, 0, n, 0, 0) < 0 THEN "R" ELSE "L"

collisionAvoidance(buf, n, cmd) ==
    IF caFwdMin(buf, 0, n, MAX_DISTANCE_CM) >= OBSTACLE_THRESHOLD_CM THEN cmd
    ELSE IF caBestAngle(buf, 0, n, 0, 0) < 0 THEN "R" ELSE "L"

\* ------------------------------------------------------------------ variants
\* Alternative codings of single points of loop(), kept to show that the
\* properties below tell them apart from the code as written.
\* A dwell that hands over to a Move instead of a new sweep.
stopSampleThenMove == "MOVE"
\* A Move pass that leaves the outputs as applyMotorCmd set them.
movePinsKept(expired, cmd) == applyMotorCmd(cmd)
\* A send that does not wait for the reply.
sendWithoutWait == "loop"
\* An exchange that does not store the command it returned.
forgetCmd(cmd, old) == old
\* A decision that is followed by the next sweep.
decideThenCollect(stop) == IF stop THEN "STOP_SAMPLE" ELSE "COLLECT"
\* An exchange that goes back to sweeping.
exchangeThenCollect == "COLLECT"

\* ------------------------------------------------- points of the loop() code
\* The value phase takes once the exchange has returned (phase = PHASE_MOVE).
phaseAfterExchange == "MOVE"
\* Where the pass is after sendBackendPayload(): inside readBackendCommand().
afterSend == "await"
\* PHASE_DECIDE: the phase chosen once the planner has run.
phaseAfterDecide(stop) == IF stop THEN "STOP_SAMPLE" ELSE "MOVE"
\* PHASE_STOP_SAMPLE: the phase entered when the dwell is over.
phaseAfterStopSample == "COLLECT"
\* PHASE_MOVE: the outputs at the end of a pass (applyMotorCmd, then stopMotors
\* when the duration has run out).
movePins(expired, cmd) == IF expired THEN stopMotors ELSE applyMotorCmd(cmd)
\* backendCmd = pendingMotorCmd after the exchange.
rememberCmd(cmd, old) == cmd

\* ------------------------------------------- environment sample and uplink
\* A float that is not a number (NAN, a failed DHT read).
NaN == -100000
isnan(x) == x = NaN

\* Variant: a failed read is stored like any other.
dhtBlockOverwrite(since, lastT, lastH, t, h) ==
    IF since >= DHT_READ_INTERVAL_MS
    THEN [queried |-> TRUE, lastTempC |-> t, lastHumPct |-> h]
    ELSE [queried |-> FALSE, lastTempC |-> lastT, lastHumPct |-> lastH]

\* The DHT block: if the interval has run out since the last attempt, read
\* temperature t and humidity h and keep each one that is a number.
dhtBlock(since, lastT, lastH, t, h) ==
    IF since >= DHT_READ_INTERVAL_MS
    THEN [queried |-> TRUE,
          lastTempC |-> IF ~isnan(t) THEN t ELSE lastT,
          lastHumPct |-> IF ~isnan(h) THEN h ELSE lastH]
    ELSE [queried |-> FALSE, lastTempC |-> lastT, lastHumPct |-> lastH]

\* millis() - lastDhtReadMs after a further gap of d ms; all that is kept of
\* the time is whether the interval has run out.
sinceAfter(queried, since, d) ==
    LET s == (IF queried THEN 0 ELSE since) + d
    IN  IF s >= DHT_READ_INTERVAL_MS THEN DHT_READ_INTERVAL_MS ELSE s

\* Variant: the tenths are cut off, not rounded.
truncTenth(x) == IF x >= 0 THEN x \div 10 ELSE -((-x) \div 10)

\* round(x * 10): the Arduino round(), half away from zero; x in hundredths,
\* the result in tenths.
roundTenth(x) == IF x >= 0 THEN (x + 5) \div 10 ELSE -((5 - x) \div 10)

\* serializeJson() of round(x * 10) / 10.0: sign, integer digits, one decimal.
jsonNumber(tenths) ==
    [neg |-> tenths < 0, whole |-> Abs(tenths) \div 10, frac |-> Abs(tenths) % 10]

\* The number a JSON parser reads back, in tenths.
parseNumber(txt) == (IF txt.neg THEN -1 ELSE 1) * (txt.whole * 10 + txt.frac)

\* Variant: every reading of the sweep goes into the frame.
readingsToSendAll(cnt) == cnt

\* int n = min(polarCount, BACKEND_READINGS_MAX).
readingsToSend(cnt) == IF cnt < BACKEND_READINGS_MAX THEN cnt ELSE BACKEND_READINGS_MAX

noFrame == [keys |-> {}, num |-> <<>>, readings |-> <<>>]

\* Variant: an overflowed document is sent as it stands.
frameAfterOverflowKept(full) == full

\* doc.clear(); timestamp_ms; an empty "readings" array.
frameAfterOverflow(full) ==
    [keys |-> {"timestamp_ms", "readings"}, num |-> <<>>, readings |-> <<>>]

\* The document of sendBackendPayload() / sendReadings(): timestamp_ms, the
\* environment fields that are numbers, and the first n readings, each rounded
\* to a tenth.  overflowed is doc.overflowed(), the verdict of the JSON library
\* for the target's memory layout.
buildFrame(t, h, rd, n, overflowed) ==
    LET envKeys == (IF ~isnan(t) THEN {"air_temp_c"} ELSE {})
                       \cup (IF ~isnan(h) THEN {"humidity_pct"} ELSE {})
        full == [keys |-> {"timestamp_ms", "readings"} \cup envKeys,
                 num |-> [k \in envKeys |->
                             jsonNumber(roundTenth(IF k = "air_temp_c" THEN t ELSE h))],
                 readings |-> [i \in 1..n |->
                                  [angle |-> jsonNumber(roundTenth(rd[i].angle)),
                                   distance |-> jsonNumber(roundTenth(rd[i].distance))]]]
    IN  IF overflowed THEN frameAfterOverflow(full) ELSE full

\* -------------------------------------------------------------- observation
\* Counters of the observation record stop at 2 (more than one is what matters).
Bump(n) == IF n >= 2 THEN 2 ELSE n + 1

\* The executions of PHASE_DECIDE so far, counted up to MaxMoveCount + 1.
countDecide(n) == IF n > MaxMoveCount THEN n ELSE n + 1

\* Whether a chunk holds a forward-cone reading under the obstacle threshold.
chunkObstacle(buf) ==
    \E i \in 1..Len(buf) :
        /\ Abs(buf[i].angle) <= FORWARD_CONE_DEG
        /\ caDist(buf[i].distance) < OBSTACLE_THRESHOLD_CM

\* The turn the chunk calls for: none without a forward obstacle, otherwise
\* away from the side of the first farthest reading.
chunkAvoid(buf) ==
    IF ~chunkObstacle(buf) THEN "none"
    ELSE LET far == CHOOSE i \in 1..Len(buf) :
                        \A j \in 1..Len(buf) :
                            /\ caDist(buf[j].distance) <= caDist(buf[i].distance)
                            /\ (j < i => caDist(buf[j].distance) < caDist(buf[i].distance))
         IN  IF buf[far].angle < 0 THEN "R" ELSE "L"

\* The last command byte consumed from the serial input, after a loop-top read.
validAfterTop(q, old) ==
    IF build = "BACKEND" /\ q # <<>> /\ Head(q) \in ValidCmds THEN Head(q) ELSE old

\* Consecutive decisions taken with the forward sector under the stuck
\* threshold, counted in runs of CONSECUTIVE_STUCK_FOR_SWEEP.
nextStreak(s, forward_cm) ==
    IF forward_cm < STUCK_THRESHOLD_CM
    THEN (IF s >= CONSECUTIVE_STUCK_FOR_SWEEP THEN 1 ELSE s + 1)
    ELSE 0

\* ------------------------------------------------ useRobotData.ts: the hook
\* setTimeout(connect, 2000).
RECONNECT_MS == 2000
\* reconnectTimeout holds no pending timer.
NoTimer == -1

\* The hook after the effect has run connect(): one socket, connecting.
dashAfterMount ==
    [mounted |-> TRUE, rs |-> "CONNECTING", timer |-> NoTimer, connected |-> FALSE,
     sockets |-> 1, lateOpens |-> 0, data |-> "default"]

\* ------------------------------------------------------------------- Init
\* The state after setup().  robot_physical starts at the left extreme,
\* heat_mapping_robot at the centre.
Init ==
    /\ build \in Builds
    /\ linkUp \in (IF build = "STANDALONE" THEN {FALSE} ELSE BOOLEAN)
    /\ pc = "loop"
    /\ phase = "COLLECT"
    /\ currentAngle = IF build = "HEATMAP" THEN 0 ELSE SWEEP_MIN_DEG
    /\ sweepDirection = TRUE
    /\ stepCount = 0
    /\ reachedMax = FALSE
    /\ sweep_cm = initSweep
    /\ polarCount = 0
    /\ scene \in sceneChoices(build)
    /\ consecutiveObstacles = 0
    /\ moveCount = 0
    /\ pendingMotorCmd = IF build = "HEATMAP" THEN "F" ELSE "S"
    /\ pendingTurnDeg = 0
    /\ backendCmd = "F"
    /\ rx = <<>>
    /\ pins = stopMotors
    /\ sincePhaseStart = 0
    /\ sinceNow = 0
    /\ heldMs = 0
    /\ buffer = <<>>
    /\ bufferIdx = 0
    /\ hostBudget = 0
    /\ ev = [type |-> "setup"]
    /\ lastTempC = IF build = "HEATMAP" THEN NaN ELSE 2000
    /\ lastHumPct = IF build = "HEATMAP" THEN NaN ELSE 5000
    /\ sinceDhtRead = DHT_READ_INTERVAL_MS
    /\ polarReadings = <<>>
    /\ frame = noFrame
    /\ writing = noWrites
    /\ dash = dashAfterMount
    /\ obs = [sweeps |-> 0, sent |-> 0, reads |-> 0, returned |-> "none",
              lastValid |-> "none", avoid |-> "none", streak |-> 0,
              decides |-> 0, tempRead |-> FALSE, humRead |-> FALSE]

\* The bytes the host may write in answer to a frame: none over a lost link.
grantBudget == IF linkUp THEN HostBurst ELSE 0

\* The bytes that may arrive while readBackendCommand() polls.
lateChoices(budget) ==
    IF budget > 0 THEN {<<>>} \cup {<<b>> : b \in hostBytes(build)} ELSE {<<>>}

\* The loop-top serial read exists in the BACKEND build only.
topRead == IF build = "BACKEND" THEN loopTopRead(rx, backendCmd)
           ELSE [rx |-> rx, backendCmd |-> backendCmd]

\* --------------------------------------------- robot_physical.ino: loop()
\* One pass with phase == PHASE_COLLECT_SWEEP.  In the BACKEND build a completed
\* sweep sends the frame and the pass is suspended in readBackendCommand().
\* came is a byte that reaches the serial input while stepServoAndCollect()
\* runs, after the read at the top of the pass.
LoopCollectSweep ==
    /\ build \in {"BACKEND", "STANDALONE"}
    /\ pc = "loop"
    /\ phase = "COLLECT"
    /\ \E dur \in StepDurations, came \in lateChoices(hostBudget) :
        LET top == topRead
            st == stepServo(currentAngle, sweepDirection)
            dist == farIfInvalid(sceneDist(scene, st.angle))
            sc == sweepComplete(st.angle, stepCount, reachedMax)
            send == sc.done /\ build = "BACKEND"
        IN  /\ Len(top.rx) + Len(came) <= MaxRx
            /\ rx' = top.rx \o came
            /\ backendCmd' = top.backendCmd
            /\ currentAngle' = st.angle
            /\ sweepDirection' = st.dir
            /\ polarCount' = IF build = "BACKEND" /\ polarRoom(polarCount)
                             THEN polarCount + 1 ELSE polarCount
            /\ sweep_cm' = collectInto(sweep_cm, st.angle, dist)
            /\ stepCount' = sc.stepCount
            /\ reachedMax' = sc.reachedMax
            /\ IF send
               THEN /\ pc' = afterSend
                    /\ sinceNow' = dur
                    /\ UNCHANGED <<phase, sincePhaseStart>>
               ELSE IF sc.done
               THEN /\ phase' = "DECIDE"
                    /\ sincePhaseStart' = dur
                    /\ UNCHANGED <<pc, sinceNow>>
               ELSE UNCHANGED <<pc, phase, sinceNow, sincePhaseStart>>
            /\ hostBudget' = IF send THEN grantBudget ELSE hostBudget - Len(came)
            /\ ev' = [type |-> "step", done |-> sc.done, sent |-> send]
            /\ obs' = [obs EXCEPT
                         !.sweeps = IF sc.done THEN Bump(@) ELSE @,
                         !.sent = IF send THEN Bump(@) ELSE @,
                         !.lastValid = validAfterTop(rx, @)]
    /\ UNCHANGED <<envVars, writing, dash>>
    /\ UNCHANGED <<build, linkUp, scene, consecutiveObstacles, moveCount,
                   pendingMotorCmd, pendingTurnDeg, pins, heldMs, buffer, bufferIdx>>

\* readBackendCommand() returns and the pass that called it ends (BACKEND).
ReadCommand ==
    /\ build = "BACKEND"
    /\ pc = "await"
    /\ \E lateAt \in LateTimes, late \in lateChoices(hostBudget) :
        LET r == readBackendCommand(rx, backendCmd, lateAt, late)
            came == IF r.notArrived = 0 THEN late ELSE <<>>
        IN  /\ hostBudget' = hostBudget - Len(came)
            /\ pendingMotorCmd' = r.cmd
            /\ backendCmd' = rememberCmd(r.cmd, backendCmd)
            /\ pendingTurnDeg' = backendTurnDeg(r.cmd)
            /\ rx' = r.rx
            /\ phase' = phaseAfterExchange
            /\ sincePhaseStart' = sinceNow + r.waited
            /\ ev' = [type |-> "read", cmd |-> r.cmd, timedOut |-> r.timedOut,
                      dropped |-> r.dropped, waited |-> r.waited,
                      stream |-> rx \o came, prevReturned |-> obs.returned,
                      prevValid |-> obs.lastValid]
            /\ obs' = [obs EXCEPT
                         !.reads = Bump(@),
                         !.returned = r.cmd,
                         !.lastValid = IF r.timedOut THEN @ ELSE r.cmd]
    /\ pc' = "loop"
    /\ sinceNow' = 0
    /\ UNCHANGED <<envVars, writing, dash>>
    /\ UNCHANGED <<build, linkUp, currentAngle, sweepDirection, stepCount,
                   reachedMax, sweep_cm, polarCount, scene, consecutiveObstacles,
                   moveCount, pins, heldMs, buffer, bufferIdx>>

\* One pass with phase == PHASE_DECIDE (STANDALONE).
LoopDecide ==
    /\ build = "STANDALONE"
    /\ pc = "loop"
    /\ phase = "DECIDE"
    /\ LET d == plannerDecide(sweep_cm, consecutiveObstacles)
           stop == STOP_SAMPLE_EVERY > 0 /\ (moveCount % STOP_SAMPLE_EVERY) = 0
                   /\ moveCount > 0
       IN  /\ pendingMotorCmd' = d.cmd
           /\ pendingTurnDeg' = d.turn
           /\ consecutiveObstacles' = d.consec
           /\ phase' = phaseAfterDecide(stop)
           /\ pins' = IF stop THEN stopMotors ELSE pins
           /\ ev' = [type |-> "decide", cmd |-> d.cmd, turn |-> d.turn,
                     layer |-> d.layer, stop |-> stop, profile |-> sweep_cm]
           /\ obs' = [obs EXCEPT !.streak = nextStreak(@, sanitize(sweep_cm[0])),
                                 !.decides = countDecide(@)]
    /\ sincePhaseStart' = 0
    /\ moveCount' = nextMoveCount(moveCount)
    /\ UNCHANGED <<envVars, writing, dash>>
    /\ UNCHANGED <<build, linkUp, pc, currentAngle, sweepDirection, stepCount,
                   reachedMax, sweep_cm, polarCount, scene, backendCmd, rx, sinceNow,
                   heldMs, buffer, bufferIdx, hostBudget>>

\* One pass with phase == PHASE_STOP_SAMPLE.
LoopStopSample ==
    /\ build \in {"BACKEND", "STANDALONE"}
    /\ pc = "loop"
    /\ phase = "STOP_SAMPLE"
    /\ rx' = topRead.rx
    /\ backendCmd' = topRead.backendCmd
    /\ pins' = stopMotors
    /\ IF sincePhaseStart >= STOP_SAMPLE_MS
       THEN /\ phase' = phaseAfterStopSample
            /\ sweep_cm' = initSweep
            /\ polarCount' = 0
            /\ sincePhaseStart' = 0
            /\ ev' = [type |-> "stopDone"]
            /\ obs' = [obs EXCEPT !.sweeps = 0, !.sent = 0, !.reads = 0,
                                  !.lastValid = validAfterTop(rx, @)]
       ELSE /\ \E d \in LoopPassMs : sincePhaseStart' = sincePhaseStart + d
            /\ UNCHANGED <<phase, sweep_cm, polarCount>>
            /\ ev' = [type |-> "stopHold"]
            /\ obs' = [obs EXCEPT !.lastValid = validAfterTop(rx, @)]
    /\ UNCHANGED <<envVars, writing, dash>>
    /\ UNCHANGED <<build, linkUp, pc, currentAngle, sweepDirection, stepCount,
                   reachedMax, scene, consecutiveObstacles, moveCount,
                   pendingMotorCmd, pendingTurnDeg, sinceNow, heldMs, buffer,
                   bufferIdx, hostBudget>>

\* One pass with phase == PHASE_MOVE.  When the Move ends the robot has moved
\* and the next sweep sees another scene.
LoopMove ==
    /\ build \in {"BACKEND", "STANDALONE"}
    /\ pc = "loop"
    /\ phase = "MOVE"
    /\ rx' = topRead.rx
    /\ backendCmd' = topRead.backendCmd
    /\ LET durationMs == moveDuration(build, pendingMotorCmd, pendingTurnDeg)
           expired == sincePhaseStart >= durationMs
       IN  /\ pins' = movePins(expired, pendingMotorCmd)
           /\ IF expired
              THEN /\ phase' = "COLLECT"
                   /\ sweep_cm' = initSweep
                   /\ polarCount' = 0
                   /\ heldMs' = 0
                   /\ scene' \in sceneChoices(build)
                   /\ sincePhaseStart' = 0
                   /\ ev' = [type |-> "moveDone", cmd |-> pendingMotorCmd,
                             dur |-> durationMs, held |-> heldMs]
                   /\ obs' = [obs EXCEPT !.sweeps = 0, !.sent = 0, !.reads = 0,
                                         !.lastValid = validAfterTop(rx, @)]
              ELSE /\ \E d \in LoopPassMs :
                         /\ sincePhaseStart' = sincePhaseStart + d
                         /\ heldMs' = heldMs + d
                   /\ UNCHANGED <<phase, sweep_cm, polarCount, scene>>
                   /\ ev' = [type |-> "moveHold", cmd |-> pendingMotorCmd]
                   /\ obs' = [obs EXCEPT !.lastValid = validAfterTop(rx, @)]
    /\ UNCHANGED <<envVars, writing, dash>>
    /\ UNCHANGED <<build, linkUp, pc, currentAngle, sweepDirection, stepCount,
                   reachedMax, consecutiveObstacles, moveCount, pendingMotorCmd,
                   pendingTurnDeg, sinceNow, buffer, bufferIdx, hostBudget>>

\* The host writes one byte to the serial line.
HostSend ==
    /\ build \in {"BACKEND", "HEATMAP"}
    /\ Len(rx) < MaxRx
    /\ hostBudget > 0
    /\ hostBudget' = hostBudget - 1
    /\ \E b \in hostBytes(build) : rx' = Append(rx, b)
    /\ ev' = [type |-> "host"]
    /\ UNCHANGED <<envVars, writing, dash>>
    /\ UNCHANGED <<build, linkUp, pc, phase, currentAngle, sweepDirection,
                   stepCount, reachedMax, sweep_cm, polarCount, scene,
                   consecutiveObstacles, moveCount, pendingMotorCmd, pendingTurnDeg,
                   backendCmd, pins, sincePhaseStart, sinceNow, heldMs, buffer,
                   bufferIdx, obs>>

\* --------------------------------------- heat_mapping_robot.ino: loop()
\* One pass with backendPhase == PHASE_COLLECT.  The eighth reading sends the
\* chunk and the pass is suspended in readBackendCommand().
HeatLoopCollect ==
    /\ build = "HEATMAP"
    /\ pc = "loop"
    /\ phase = "COLLECT"
    /\ \E md \in MedianDurations :
        LET dist == heatDist(sceneDist(scene, currentAngle))
            st == stepServo(currentAngle, sweepDirection)
            full == bufferIdx + 1 >= SEND_CHUNK
        IN  /\ buffer' = Append(buffer, [angle |-> currentAngle, distance |-> dist])
            /\ bufferIdx' = bufferIdx + 1
            /\ IF full
               THEN /\ pc' = afterSend
                    /\ sinceNow' = md
                    /\ hostBudget' = grantBudget
                    /\ UNCHANGED <<currentAngle, sweepDirection>>
               ELSE /\ currentAngle' = st.angle
                    /\ sweepDirection' = st.dir
                    /\ UNCHANGED <<pc, sinceNow, hostBudget>>
            /\ ev' = [type |-> "step", done |-> FALSE, sent |-> full]
            /\ obs' = [obs EXCEPT !.sent = IF full THEN Bump(@) ELSE @]
    /\ UNCHANGED <<envVars, writing, dash>>
    /\ UNCHANGED <<build, linkUp, phase, stepCount, reachedMax, sweep_cm, polarCount,
                   scene, consecutiveObstacles, moveCount, pendingMotorCmd,
                   pendingTurnDeg, backendCmd, rx, pins, heldMs, sincePhaseStart>>

\* readBackendCommand() returns; collisionAvoidance() may replace the command;
\* the pass ends with stepServo() and delay(80).
HeatReadCommand ==
    /\ build = "HEATMAP"
    /\ pc = "await"
    /\ \E lateAt \in LateTimes, late \in lateChoices(hostBudget) :
        LET r == readBackendCommand(rx, backendCmd, lateAt, late)
            came == IF r.notArrived = 0 THEN late ELSE <<>>
            st == stepServo(currentAngle, sweepDirection)
        IN  /\ hostBudget' = hostBudget - Len(came)
            /\ backendCmd' = rememberCmd(r.cmd, backendCmd)
            /\ pendingMotorCmd' = collisionAvoidance(buffer, SEND_CHUNK, r.cmd)
            /\ bufferIdx' = 0
            /\ buffer' = <<>>
            /\ rx' = r.rx
            /\ phase' = phaseAfterExchange
            /\ sincePhaseStart' = sinceNow + r.waited + HEAT_COLLECT_DELAY_MS
            /\ currentAngle' = st.angle
            /\ sweepDirection' = st.dir
            /\ ev' = [type |-> "read", cmd |-> r.cmd, timedOut |-> r.timedOut,
                      dropped |-> r.dropped, waited |-> r.waited,
                      stream |-> rx \o came, prevReturned |-> obs.returned,
                      prevValid |-> obs.lastValid]
            /\ obs' = [obs EXCEPT
                         !.reads = Bump(@),
                         !.returned = r.cmd,
                         !.lastValid = IF r.timedOut THEN @ ELSE r.cmd,
                         !.avoid = chunkAvoid(buffer)]
    /\ pc' = "loop"
    /\ sinceNow' = 0
    /\ UNCHANGED <<envVars, writing, dash>>
    /\ UNCHANGED <<build, linkUp, stepCount, reachedMax, sweep_cm, polarCount, scene,
                   consecutiveObstacles, moveCount, pendingTurnDeg, pins, heldMs>>

\* One pass with backendPhase == PHASE_MOVE; it ends with delay(50).
HeatLoopMove ==
    /\ build = "HEATMAP"
    /\ pc = "loop"
    /\ phase = "MOVE"
    /\ LET durationMs == moveDuration(build, pendingMotorCmd, pendingTurnDeg)
           expired == sincePhaseStart >= durationMs
       IN  /\ pins' = movePins(expired, pendingMotorCmd)
           /\ IF expired
              THEN /\ phase' = "COLLECT"
                   /\ heldMs' = 0
                   /\ scene' \in sceneChoices(build)
                   /\ sincePhaseStart' = 0
                   /\ ev' = [type |-> "moveDone", cmd |-> pendingMotorCmd,
                             dur |-> durationMs, held |-> heldMs]
                   /\ obs' = [obs EXCEPT !.sweeps = 0, !.sent = 0, !.reads = 0]
              ELSE /\ sincePhaseStart' = sincePhaseStart + HEAT_MOVE_DELAY_MS
                   /\ heldMs' = heldMs + HEAT_MOVE_DELAY_MS
                   /\ UNCHANGED <<phase, scene, obs>>
                   /\ ev' = [type |-> "moveHold", cmd |-> pendingMotorCmd]
    /\ UNCHANGED <<envVars, writing, dash>>
    /\ UNCHANGED <<build, linkUp, pc, currentAngle, sweepDirection, stepCount,
                   reachedMax, sweep_cm, polarCount, consecutiveObstacles, moveCount,
                   pendingMotorCmd, pendingTurnDeg, backendCmd, rx, sinceNow,
                   buffer, bufferIdx, hostBudget>>

\* The steps of the firmware (the host's writes are HostSend).
Controller ==
    \/ LoopCollectSweep
    \/ ReadCommand
    \/ LoopDecide
    \/ LoopStopSample
    \/ LoopMove
    \/ HeatLoopCollect
    \/ HeatReadCommand
    \/ HeatLoopMove

Next ==
    \/ Controller
    \/ HostSend

Spec == Init /\ [][Next]_vars

\* The firmware with the serial link lost from the start: loop() keeps being
\* called by the Arduino core, so its steps are taken whenever enabled.
LostLinkInit == Init /\ ~linkUp
LostLinkSpec == LostLinkInit /\ [][Controller]_vars /\ WF_vars(Controller)

\* ------------------------------------------------ plannerDecide() on its own
\* Profiles handed to the planner.  The first family varies forward, left and
\* right as a sweep fills them; the second puts the maximum in any one or two
\* of the 12 sectors over a low or a far floor, to run the recovery scan over
\* contents a sweep does not produce as well.
PlannerForward == {10, 14, 15, 20, 24, 25, 100}
PlannerLeft == {10, 21, 22, 30, 38, 39, 45, 50}
PlannerRight == {10, 50}
PlannerFloor == {5, 150}

sweepProfile(f, l, r) ==
    [k \in 0..(SWEEP_BINS - 1) |->
        IF k = 0 THEN f ELSE IF k = 3 THEN l ELSE IF k = 9 THEN r ELSE DEFAULT_FAR_CM]

peakProfile(floor, i, j) ==
    [k \in 0..(SWEEP_BINS - 1) |->
        IF k = i \/ k = j THEN 300 ELSE IF k = 0 THEN 10 ELSE floor]

PlannerProfiles ==
    {sweepProfile(f, l, r) : f \in PlannerForward, l \in PlannerLeft, r \in PlannerRight}
    \cup {peakProfile(fl, i, j) : fl \in PlannerFloor,
                                  i \in 1..(SWEEP_BINS - 1), j \in 1..(SWEEP_BINS - 1)}
    \cup {peakProfile(5, 0, 0)}

PlannerInit == Init /\ build = "STANDALONE" /\ scene = Scene(0, 0, 0)

\* plannerDecide() called on a profile, as PHASE_DECIDE calls it.
PlannerCall ==
    \E p \in PlannerProfiles :
        LET d == plannerDecide(p, consecutiveObstacles)
        IN  /\ sweep_cm' = p
            /\ pendingMotorCmd' = d.cmd
            /\ pendingTurnDeg' = d.turn
            /\ consecutiveObstacles' = d.consec
            /\ ev' = [type |-> "decide", cmd |-> d.cmd, turn |-> d.turn,
                      layer |-> d.layer, stop |-> FALSE, profile |-> p]
            /\ obs' = [obs EXCEPT !.streak = nextStreak(@, sanitize(p[0]))]
            /\ UNCHANGED <<envVars, writing, dash>>
            /\ UNCHANGED <<build, linkUp, pc, phase, currentAngle, sweepDirection,
                           stepCount, reachedMax, polarCount, scene, moveCount,
                           backendCmd, rx, pins, sincePhaseStart, sinceNow, heldMs,
                           buffer, bufferIdx, hostBudget>>

PlannerSpec == PlannerInit /\ [][PlannerCall]_vars

\* ------------------------------------------- the Move duration on its own
\* Turn angles handed to the duration selection: the planner's and the
\* backend's, and both sides of the tier boundaries.
TurnDegs == {-180, -150, -90, -51, -50, -45, -21, -20, -15, 0,
             15, 20, 21, 30, 45, 50, 51, 60, 90, 180}

DurationInit ==
    Init /\ build \in {"BACKEND", "STANDALONE"} /\ ~linkUp /\ scene = Scene(10, 40, 20)

\* PHASE_MOVE computes durationMs for a pending command and turn; turnDegToMs()
\* is evaluated on the same turn.
DurationCall ==
    \E cmd \in ValidCmds, t \in TurnDegs :
        /\ pendingMotorCmd' = cmd
        /\ pendingTurnDeg' = t
        /\ ev' = [type |-> "duration", cmd |-> cmd, turn |-> t,
                  dur |-> moveDuration(build, cmd, t), fn |-> turnDegToMs(t)]
        /\ UNCHANGED <<envVars, writing, dash>>
        /\ UNCHANGED <<build, linkUp, pc, phase, currentAngle, sweepDirection,
                       stepCount, reachedMax, sweep_cm, polarCount, scene,
                       consecutiveObstacles, moveCount, backendCmd, rx, pins,
                       sincePhaseStart, sinceNow, heldMs, buffer, bufferIdx,
                       hostBudget, obs>>

DurationSpec == DurationInit /\ [][DurationCall]_vars

\* ------------------------------------------------- the sweep on its own
ULTRASONIC_SAMPLES == 5

\* The test readDistanceCmMedian() applies to each echo of its window.
validEcho(cm) ==
    cm >= MIN_DISTANCE_CM /\ cm <= MAX_DISTANCE_CM /\ cm > 0 /\ cm < MAX_VALID_CM

\* sortFloat(): insertion sort, ascending.
RECURSIVE insertFloat(_, _)
insertFloat(arr, v) ==
    IF arr = <<>> THEN <<v>>
    ELSE IF arr[Len(arr)] > v
         THEN Append(insertFloat(SubSeq(arr, 1, Len(arr) - 1), v), arr[Len(arr)])
         ELSE Append(arr, v)

RECURSIVE sortFloat(_)
sortFloat(arr) ==
    IF arr = <<>> THEN <<>>
    ELSE insertFloat(sortFloat(SubSeq(arr, 1, Len(arr) - 1)), arr[Len(arr)])

\* readDistanceCmMedian() over a window of echoes (0: pulseIn timed out).
readDistanceCmMedian(echoes) ==
    LET buf == SelectSeq(echoes, validEcho)
        valid == Len(buf)
    IN  IF valid = 0 THEN 0 ELSE sortFloat(buf)[(valid \div 2) + 1]

\* Windows of ULTRASONIC_SAMPLES echoes, in cm: all timed out; all out of range
\* (1 stands for an echo shorter than MIN_DISTANCE_CM); medians at the two
\* bounds, with timeouts and out-of-range echoes mixed in.
EchoWindows ==
    { <<0, 0, 0, 0, 0>>, <<1, 500, 0, 401, 1>>,
      <<2, 0, 2, 500, 2>>, <<400, 2, 400, 0, 0>> }

SweepInit == Init /\ build = "BACKEND" /\ ~linkUp

\* The sectors a sample was classified into since the last initSweep().
classifiedSoFar == IF ev.type = "sweepStep" THEN ev.classified ELSE {}

\* collectSweepStep(): stepServoAndCollect() on a window of echoes, then
\* sweepComplete(). No step follows a completed sweep before initSweep().
SweepStepOn(windows) ==
    /\ ~(ev.type = "sweepStep" /\ ev.done)
    /\ \E w \in windows :
        LET st == stepServo(currentAngle, sweepDirection)
            median == readDistanceCmMedian(w)
            dist == farIfInvalid(median)
            bin == binOf(st.angle)
            sc == sweepComplete(st.angle, stepCount, reachedMax)
            room == build = "BACKEND" /\ polarRoom(polarCount)
        IN  /\ currentAngle' = st.angle
            /\ sweepDirection' = st.dir
            /\ polarCount' = IF room THEN polarCount + 1 ELSE polarCount
            /\ sweep_cm' = collectInto(sweep_cm, st.angle, dist)
            /\ stepCount' = sc.stepCount
            /\ reachedMax' = sc.reachedMax
            /\ ev' = [type |-> "sweepStep", median |-> median, dist |-> dist,
                      angle |-> st.angle, servo |-> angleToServo(st.angle),
                      bin |-> bin,
                      prev |-> IF bin >= 0 THEN sweep_cm[bin] ELSE -1,
                      first |-> bin \notin classifiedSoFar,
                      classified |-> classifiedSoFar \cup ({bin} \ {-1}),
                      polarIdx |-> IF room THEN polarCount ELSE -1,
                      done |-> sc.done]
    /\ UNCHANGED <<envVars, writing, dash>>
    /\ UNCHANGED <<build, linkUp, pc, phase, scene, consecutiveObstacles,
                   moveCount, pendingMotorCmd, pendingTurnDeg, backendCmd, rx,
                   pins, sincePhaseStart, sinceNow, heldMs, buffer, bufferIdx,
                   hostBudget, obs>>

SweepStep == SweepStepOn(EchoWindows)

\* initSweep() at the entry into PHASE_COLLECT_SWEEP that follows a completed
\* sweep.
SweepReset ==
    /\ ev.type = "sweepStep" /\ ev.done
    /\ sweep_cm' = initSweep
    /\ polarCount' = 0
    /\ ev' = [type |-> "initSweep"]
    /\ UNCHANGED <<envVars, writing, dash>>
    /\ UNCHANGED <<build, linkUp, pc, phase, currentAngle, sweepDirection,
                   stepCount, reachedMax, scene, consecutiveObstacles,
                   moveCount, pendingMotorCmd, pendingTurnDeg, backendCmd, rx,
                   pins, sincePhaseStart, sinceNow, heldMs, buffer, bufferIdx,
                   hostBudget, obs>>

SweepNext == SweepStep \/ SweepReset

SweepSpec == SweepInit /\ [][SweepNext]_vars

\* ------------------------------------------------ the motor outputs alone
\* Bytes handed to applyMotorCmd(): the five commands, their lower-case forms,
\* and bytes that are no command at all.
MotorBytes == ValidCmds \cup {"f", "b", "l", "r", "s", "X", "0", "nl"}

MotorInit == Init /\ build \in {"BACKEND", "STANDALONE"} /\ ~linkUp /\ scene = Scene(10, 40, 20)

\* applyMotorCmd() on a byte, whatever the outputs were before.
MotorCall ==
    \E c \in MotorBytes :
        /\ pins' = applyMotorCmd(c)
        /\ ev' = [type |-> "motor", cmd |-> c, before |-> pins]
        /\ UNCHANGED <<envVars, writing, dash>>
        /\ UNCHANGED <<build, linkUp, pc, phase, currentAngle, sweepDirection,
                       stepCount, reachedMax, sweep_cm, polarCount, scene,
                       consecutiveObstacles, moveCount, pendingMotorCmd,
                       pendingTurnDeg, backendCmd, rx, sincePhaseStart, sinceNow,
                       heldMs, buffer, bufferIdx, hostBudget, obs>>

MotorSpec == MotorInit /\ [][MotorCall]_vars

\* ---------------------------------------------------- the median alone
\* Echoes in cm: a pulseIn timeout, an echo under MIN_DISTANCE_CM, the two
\* bounds, a value between them, and an echo over MAX_DISTANCE_CM.
EchoCm == {0, 1, 2, 10, 400, 500}

\* The windows readDistanceCmMedian() can read: 3 or 4 echoes in any order.
MedianWindows ==
    UNION {[1..n -> EchoCm] : n \in 3..4}

MedianInit == Init /\ build = "STANDALONE" /\ scene = Scene(0, 0, 0)

\* readDistanceCmMedian() on one window of echoes.
MedianCall ==
    \E w \in MedianWindows :
        /\ ev' = [type |-> "median", window |-> w,
                  median |-> readDistanceCmMedian(w)]
        /\ UNCHANGED <<envVars, writing, dash>>
        /\ UNCHANGED <<build, linkUp, pc, phase, currentAngle, sweepDirection,
                       stepCount, reachedMax, sweep_cm, polarCount, scene,
                       consecutiveObstacles, moveCount, pendingMotorCmd,
                       pendingTurnDeg, backendCmd, rx, pins, sincePhaseStart,
                       sinceNow, heldMs, buffer, bufferIdx, hostBudget, obs>>

MedianSpec == MedianInit /\ [][MedianCall]_vars

\* ------------------------------------ the environment sample and the frame
\* Readings and DHT values are in hundredths here, so that the rounding to a
\* tenth has something to round.
DhtTemps == {NaN, 2150, 3049}
DhtHums == {NaN, 4005}
\* Time between two DHT tests.
EnvGapMs == {1000, 2000}

\* The raw readings of a sweep of n steps, upward from -80 or downward from
\* +80 degrees, with the distances of a pattern repeated.
sweepReadings(n, up, dists) ==
    [i \in 1..n |->
        [angle |-> (IF up THEN 1 ELSE -1) * 100 * ((10 * (((i - 1) % 18) + 1)) - 90),
         distance |-> dists[((i - 1) % Len(dists)) + 1]]]

DistPatterns == {<<15000>>, <<1234, 1235, 200, 40000, 1205, 995>>}

PolarSweeps ==
    {sweepReadings(n, up, p) : n \in {18, READINGS_MAX}, up \in BOOLEAN, p \in DistPatterns}

\* The chunks of SEND_CHUNK readings of heat_mapping_robot.ino.
HeatChunks == {sweepReadings(SEND_CHUNK, TRUE, <<1234, 40000>>)}

EnvInit == Init /\ build \in {"BACKEND", "HEATMAP"} /\ ~linkUp /\ scene = Scene(10, 40, 20)

\* A loop() pass of robot_physical.ino that sends nothing: the DHT block at
\* its top is all it does to the environment sample.
EnvLoopTop ==
    /\ build = "BACKEND"
    /\ pc = "loop"
    /\ \E t \in DhtTemps, h \in DhtHums, d \in EnvGapMs :
        LET b == dhtBlock(sinceDhtRead, lastTempC, lastHumPct, t, h)
        IN  /\ lastTempC' = b.lastTempC
            /\ lastHumPct' = b.lastHumPct
            /\ sinceDhtRead' = sinceAfter(b.queried, sinceDhtRead, d)
            /\ ev' = [type |-> "dht", queried |-> b.queried, since |-> sinceDhtRead,
                      t |-> t, h |-> h, prevT |-> lastTempC, prevH |-> lastHumPct]
            /\ obs' = [obs EXCEPT
                         !.tempRead = @ \/ (b.queried /\ ~isnan(t)),
                         !.humRead = @ \/ (b.queried /\ ~isnan(h))]
    /\ UNCHANGED <<polarReadings, frame>>
    /\ UNCHANGED <<writing, dash>>
    /\ UNCHANGED <<build, linkUp, pc, phase, currentAngle, sweepDirection,
                   stepCount, reachedMax, sweep_cm, polarCount, scene,
                   consecutiveObstacles, moveCount, pendingMotorCmd,
                   pendingTurnDeg, backendCmd, rx, pins, sincePhaseStart, sinceNow,
                   heldMs, buffer, bufferIdx, hostBudget>>

\* The pass that completes a sweep (BACKEND): the DHT block at its top, then
\* sendBackendPayload() on the readings the sweep left and the wait in
\* readBackendCommand().
EnvSendPayload ==
    /\ build = "BACKEND"
    /\ pc = "loop"
    /\ phase = "COLLECT"
    /\ \E rd \in PolarSweeps, overflowed \in BOOLEAN, t \in DhtTemps, h \in DhtHums,
          d \in EnvGapMs, dur \in StepDurations :
        LET b == dhtBlock(sinceDhtRead, lastTempC, lastHumPct, t, h)
            n == readingsToSend(Len(rd))
        IN  /\ polarReadings' = rd
            /\ polarCount' = Len(rd)
            /\ lastTempC' = b.lastTempC
            /\ lastHumPct' = b.lastHumPct
            /\ sinceDhtRead' = sinceAfter(b.queried, sinceDhtRead, d)
            /\ frame' = buildFrame(b.lastTempC, b.lastHumPct, rd, n, overflowed)
            /\ sinceNow' = dur
            /\ ev' = [type |-> "send", overflowed |-> overflowed,
                      queried |-> b.queried, since |-> sinceDhtRead,
                      t |-> t, h |-> h,
                      prevT |-> lastTempC, prevH |-> lastHumPct]
            /\ obs' = [obs EXCEPT
                         !.sent = Bump(@),
                         !.tempRead = @ \/ (b.queried /\ ~isnan(t)),
                         !.humRead = @ \/ (b.queried /\ ~isnan(h))]
    /\ pc' = afterSend
    /\ hostBudget' = grantBudget
    /\ UNCHANGED <<writing, dash>>
    /\ UNCHANGED <<build, linkUp, phase, currentAngle, sweepDirection, stepCount,
                   reachedMax, sweep_cm, scene, consecutiveObstacles, moveCount,
                   pendingMotorCmd, pendingTurnDeg, backendCmd, rx, pins,
                   sincePhaseStart, heldMs, buffer, bufferIdx>>

\* The pass of heat_mapping_robot.ino that stores the eighth reading:
\* sendReadings(), DHT block included, on the chunk, then the wait in
\* readBackendCommand().
HeatEnvSend ==
    /\ build = "HEATMAP"
    /\ pc = "loop"
    /\ phase = "COLLECT"
    /\ \E rd \in HeatChunks, overflowed \in BOOLEAN, t \in DhtTemps, h \in DhtHums,
          d \in EnvGapMs, md \in MedianDurations :
        LET b == dhtBlock(sinceDhtRead, lastTempC, lastHumPct, t, h)
        IN  /\ buffer' = rd
            /\ bufferIdx' = SEND_CHUNK
            /\ lastTempC' = b.lastTempC
            /\ lastHumPct' = b.lastHumPct
            /\ sinceDhtRead' = sinceAfter(b.queried, sinceDhtRead, d)
            /\ frame' = buildFrame(b.lastTempC, b.lastHumPct, rd, SEND_CHUNK, overflowed)
            /\ sinceNow' = md
            /\ ev' = [type |-> "send", overflowed |-> overflowed,
                      queried |-> b.queried, since |-> sinceDhtRead,
                      t |-> t, h |-> h,
                      prevT |-> lastTempC, prevH |-> lastHumPct]
            /\ obs' = [obs EXCEPT
                         !.sent = Bump(@),
                         !.tempRead = @ \/ (b.queried /\ ~isnan(t)),
                         !.humRead = @ \/ (b.queried /\ ~isnan(h))]
    /\ pc' = afterSend
    /\ hostBudget' = grantBudget
    /\ UNCHANGED polarReadings
    /\ UNCHANGED <<writing, dash>>
    /\ UNCHANGED <<build, linkUp, phase, currentAngle, sweepDirection, stepCount,
                   reachedMax, sweep_cm, polarCount, scene, consecutiveObstacles,
                   moveCount, pendingMotorCmd, pendingTurnDeg, backendCmd, rx, pins,
                   sincePhaseStart, heldMs>>

EnvNext ==
    \/ EnvLoopTop
    \/ EnvSendPayload
    \/ ReadCommand
    \/ LoopMove
    \/ HeatEnvSend
    \/ HeatReadCommand
    \/ HeatLoopMove

EnvSpec == EnvInit /\ [][EnvNext]_vars

\* ------------------------------------- the planner on the sweeps' profiles
\* What the sensor may report in one direction while a sweep runs, in cm: no
\* echo, stuck, obstacle, the wall target, the far sentinel's side, the limit.
DecideDistances == {0, 2, 20, 30, 200, 400}

DecideScenes ==
    {Scene(f, l, r) : f \in DecideDistances, l \in DecideDistances, r \in DecideDistances}

\* Five echoes of a target at d cm, one lost and one out of range among them.
echoesOf(d) == <<d, 0, d, 500, d>>

DecideInit == Init /\ build = "STANDALONE"

\* A sweep step of the standalone build in the scene around the robot.
DecideSweepStep ==
    /\ ev.type # "decide"
    /\ SweepStepOn({echoesOf(sceneDist(scene,
                                       stepServo(currentAngle, sweepDirection).angle))})

\* PHASE_DECIDE after a completed sweep: plannerDecide() on the profile the
\* sweep left.
SweepDecide ==
    /\ ev.type = "sweepStep" /\ ev.done
    /\ LET d == plannerDecide(sweep_cm, consecutiveObstacles)
       IN  /\ pendingMotorCmd' = d.cmd
           /\ pendingTurnDeg' = d.turn
           /\ consecutiveObstacles' = d.consec
           /\ ev' = [type |-> "decide", cmd |-> d.cmd, turn |-> d.turn,
                     layer |-> d.layer, stop |-> FALSE, profile |-> sweep_cm]
    /\ UNCHANGED <<envVars, writing, dash>>
    /\ UNCHANGED <<build, linkUp, pc, phase, currentAngle, sweepDirection,
                   stepCount, reachedMax, sweep_cm, polarCount, scene, moveCount,
                   backendCmd, rx, pins, sincePhaseStart, sinceNow, heldMs,
                   buffer, bufferIdx, hostBudget, obs>>

\* The end of the Move that follows: initSweep(), in the place the Move has
\* taken the robot to.
DecideReset ==
    /\ ev.type = "decide"
    /\ sweep_cm' = initSweep
    /\ scene' \in DecideScenes
    /\ ev' = [type |-> "initSweep"]
    /\ UNCHANGED <<envVars, writing, dash>>
    /\ UNCHANGED <<build, linkUp, pc, phase, currentAngle, sweepDirection,
                   stepCount, reachedMax, polarCount, consecutiveObstacles,
                   moveCount, pendingMotorCmd, pendingTurnDeg, backendCmd, rx,
                   pins, sincePhaseStart, sinceNow, heldMs, buffer, bufferIdx,
                   hostBudget, obs>>

DecideNext == DecideSweepStep \/ SweepDecide \/ DecideReset

DecideSpec == DecideInit /\ [][DecideNext]_vars

\* ------------------------------------- the motor outputs, write by write
\* Variant: a Move that ends without stopMotors().
moveEndsWithoutStop(expired) == <<>>

\* The motor function a PHASE_MOVE pass calls after applyMotorCmd():
\* stopMotors() once the duration has run out.
moveEndCalls(expired) == IF expired THEN <<stopMotors>> ELSE <<>>

PinInit == Init /\ build \in {"BACKEND", "STANDALONE"} /\ ~linkUp /\ scene = Scene(10, 40, 20)

\* motorSetup(): the four outputs are written LOW.
PinSetup ==
    /\ ev.type = "setup"
    /\ writing' = [queue |-> <<stopMotors>>, done |-> 0]
    /\ ev' = [type |-> "motorSetup"]
    /\ UNCHANGED <<envVars, dash>>
    /\ UNCHANGED <<build, linkUp, pc, phase, currentAngle, sweepDirection,
                   stepCount, reachedMax, sweep_cm, polarCount, scene,
                   consecutiveObstacles, moveCount, pendingMotorCmd,
                   pendingTurnDeg, backendCmd, rx, pins, sincePhaseStart, sinceNow,
                   heldMs, buffer, bufferIdx, hostBudget, obs>>

\* One digitalWrite() of the motor function that is running: IN1, IN2, IN3,
\* IN4 in this order.
PinWrite ==
    /\ writing.queue # <<>>
    /\ LET k == writing.done + 1
       IN  /\ pins' = [pins EXCEPT ![k] = Head(writing.queue)[k]]
           /\ writing' = IF k = 4 THEN [queue |-> Tail(writing.queue), done |-> 0]
                         ELSE [writing EXCEPT !.done = k]
           /\ ev' = [type |-> "pinWrite", pin |-> k, before |-> pins]
    /\ UNCHANGED <<envVars, dash>>
    /\ UNCHANGED <<build, linkUp, pc, phase, currentAngle, sweepDirection,
                   stepCount, reachedMax, sweep_cm, polarCount, scene,
                   consecutiveObstacles, moveCount, pendingMotorCmd,
                   pendingTurnDeg, backendCmd, rx, sincePhaseStart, sinceNow,
                   heldMs, buffer, bufferIdx, hostBudget, obs>>

\* The exchange or the decision that starts a Move: a command is stored and
\* the phase becomes PHASE_MOVE.
PinNewCommand ==
    /\ ev.type # "setup"
    /\ writing.queue = <<>>
    /\ phase = "COLLECT"
    /\ pendingMotorCmd' \in ValidCmds
    /\ phase' = "MOVE"
    /\ ev' = [type |-> "command"]
    /\ UNCHANGED <<envVars, writing, dash>>
    /\ UNCHANGED <<build, linkUp, pc, currentAngle, sweepDirection,
                   stepCount, reachedMax, sweep_cm, polarCount, scene,
                   consecutiveObstacles, moveCount,
                   pendingTurnDeg, backendCmd, rx, pins, sincePhaseStart, sinceNow,
                   heldMs, buffer, bufferIdx, hostBudget, obs>>

\* A pass with phase == PHASE_MOVE: applyMotorCmd(pendingMotorCmd), then
\* stopMotors() when the duration has run out.
PinMovePass ==
    /\ writing.queue = <<>>
    /\ phase = "MOVE"
    /\ \E expired \in BOOLEAN :
          /\ writing' = [queue |-> <<applyMotorCmd(pendingMotorCmd)>> \o moveEndCalls(expired),
                         done |-> 0]
          /\ phase' = IF expired THEN "COLLECT" ELSE "MOVE"
          /\ ev' = [type |-> "movePass", expired |-> expired]
    /\ UNCHANGED <<envVars, dash>>
    /\ UNCHANGED <<build, linkUp, pc, currentAngle, sweepDirection,
                   stepCount, reachedMax, sweep_cm, polarCount, scene,
                   consecutiveObstacles, moveCount, pendingMotorCmd,
                   pendingTurnDeg, backendCmd, rx, pins, sincePhaseStart, sinceNow,
                   heldMs, buffer, bufferIdx, hostBudget, obs>>

\* stopMotors() of PHASE_DECIDE on a stop-and-sample cycle and of each
\* PHASE_STOP_SAMPLE pass (standalone build).
PinStopSample ==
    /\ build = "STANDALONE"
    /\ ev.type # "setup"
    /\ writing.queue = <<>>
    /\ phase = "COLLECT"
    /\ writing' = [queue |-> <<stopMotors>>, done |-> 0]
    /\ ev' = [type |-> "stopSample"]
    /\ UNCHANGED <<envVars, dash>>
    /\ UNCHANGED <<build, linkUp, pc, phase, currentAngle, sweepDirection,
                   stepCount, reachedMax, sweep_cm, polarCount, scene,
                   consecutiveObstacles, moveCount, pendingMotorCmd,
                   pendingTurnDeg, backendCmd, rx, pins, sincePhaseStart, sinceNow,
                   heldMs, buffer, bufferIdx, hostBudget, obs>>

PinNext == PinSetup \/ PinWrite \/ PinNewCommand \/ PinMovePass \/ PinStopSample

PinSpec == PinInit /\ [][PinNext]_vars

\* --------------------------------------- useRobotData.ts: socket lifecycle
SocketInit == Init /\ build = "BACKEND" /\ ~linkUp

\* Everything but dash and ev stays as it is in the steps of the hook.
firmwareVars ==
    <<build, linkUp, pc, phase, currentAngle, sweepDirection, stepCount,
      reachedMax, sweep_cm, polarCount, scene, consecutiveObstacles, moveCount,
      pendingMotorCmd, pendingTurnDeg, backendCmd, rx, pins, sincePhaseStart,
      sinceNow, heldMs, buffer, bufferIdx, hostBudget, obs, envVars, writing>>

\* ws.onopen: setConnected(true).
SockOpen ==
    /\ dash.rs = "CONNECTING"
    /\ dash' = [dash EXCEPT !.rs = "OPEN", !.connected = TRUE]
    /\ ev' = [type |-> "sockOpen"]
    /\ UNCHANGED firmwareVars

\* ws.onmessage: setData() of a message that parses, nothing otherwise.
SockMessage ==
    /\ dash.rs = "OPEN"
    /\ \E parsed \in BOOLEAN :
          /\ dash' = [dash EXCEPT !.data = IF parsed THEN "update" ELSE @]
          /\ ev' = [type |-> "sockMessage", parsed |-> parsed]
    /\ UNCHANGED firmwareVars

\* The close event of the socket (after an error event when the connection
\* failed: ws.onerror calls close() on a socket that is closed already):
\* ws.onclose does setConnected(false) and setTimeout(connect, 2000).
SockClosed ==
    /\ dash.rs \in {"CONNECTING", "OPEN", "CLOSING"}
    /\ \E withError \in BOOLEAN :
          ev' = [type |-> "sockClose", mounted |-> dash.mounted,
                 timerBefore |-> dash.timer, withError |-> withError]
    /\ dash' = [dash EXCEPT !.rs = "CLOSED", !.connected = FALSE,
                            !.timer = RECONNECT_MS]
    /\ UNCHANGED firmwareVars

\* Time passes while the reconnect timer runs.
TimerTick ==
    /\ dash.timer > 0
    /\ dash' = [dash EXCEPT !.timer = @ - (RECONNECT_MS \div 2)]
    /\ ev' = [type |-> "timerTick"]
    /\ UNCHANGED firmwareVars

\* The reconnect timer fires: connect() makes a new WebSocket.
TimerFire ==
    /\ dash.timer = 0
    /\ dash.sockets < MaxSockets
    /\ dash' = [dash EXCEPT !.rs = "CONNECTING", !.timer = NoTimer,
                            !.sockets = @ + 1,
                            !.lateOpens = IF dash.mounted THEN @ ELSE @ + 1]
    /\ ev' = [type |-> "connect"]
    /\ UNCHANGED firmwareVars

\* The cleanup of the effect: clearTimeout(reconnectTimeout); ws?.close().
Cleanup ==
    /\ dash.mounted
    /\ dash' = [dash EXCEPT !.mounted = FALSE, !.timer = NoTimer,
                            !.rs = IF @ \in {"CONNECTING", "OPEN"} THEN "CLOSING" ELSE @]
    /\ ev' = [type |-> "cleanup", rs |-> dash.rs, timerBefore |-> dash.timer]
    /\ UNCHANGED firmwareVars

SocketNext == SockOpen \/ SockMessage \/ SockClosed \/ TimerTick \/ TimerFire \/ Cleanup

SocketSpec == SocketInit /\ [][SocketNext]_vars

\* ================================================================ properties

\* The phase changes each build allows.
AllowedEdges(b) ==
    IF b = "STANDALONE"
    THEN {<<"COLLECT", "DECIDE">>, <<"DECIDE", "MOVE">>, <<"DECIDE", "STOP_SAMPLE">>,
          <<"MOVE", "COLLECT">>, <<"STOP_SAMPLE", "COLLECT">>}
    ELSE {<<"COLLECT", "MOVE">>, <<"MOVE", "COLLECT">>}

\* C1: phase only changes along the documented edges (standalone:
\* COLLECT->DECIDE on sweep completion, DECIDE->MOVE or STOP_SAMPLE,
\* MOVE->COLLECT, STOP_SAMPLE->COLLECT; backend: COLLECT->MOVE after the
\* exchange, MOVE->COLLECT), and every reachable state has a firmware step
\* enabled.
C1_PhaseEdges ==
    /\ [][phase' # phase =>
            /\ <<phase, phase'>> \in AllowedEdges(build)
            /\ (phase = "COLLECT" /\ build = "STANDALONE"
                    => ev'.type = "step" /\ ev'.done)
            /\ (phase = "COLLECT" /\ build # "STANDALONE" => ev'.type = "read")
       ]_vars
    /\ [](ENABLED Controller)

\* A dwell has ended in the standalone build and the next sweep begins.
C1_Witness ==
    build = "STANDALONE" /\ ev.type = "stopDone" /\ phase = "COLLECT"

\* C2: every Move holds the motor pattern for at least the computed duration
\* before the motors are stopped, in standalone and in backend mode.
C2_MoveHoldsDuration ==
    (ev.type = "moveDone" /\ ev.cmd \in {"F", "B", "L", "R"})
        => ev.held >= ev.dur

\* C3: sweepComplete gives true exactly when a step ends a one-way traversal,
\* i.e. on every arrival at an extreme (every 18 steps), in both directions,
\* and its counter and flag are reset when it does.
C3_SweepCompleteEveryTraversal ==
    (build # "HEATMAP" /\ ev.type = "step") =>
        /\ ev.done <=> currentAngle \in {SWEEP_MIN_DEG, SWEEP_MAX_DEG}
        /\ ev.done => stepCount = 0 /\ ~reachedMax

\* C4: the drive outputs are set to a motion pattern only by a pass in
\* PHASE_MOVE, and whenever phase is not MOVE all four are LOW.
C4_MotorsOnlyInMove ==
    /\ [](phase # "MOVE" => pins = stopMotors)
    /\ [][pins' # stopMotors => phase = "MOVE" /\ pc = "loop"]_vars

\* A Move has driven the motors and ended.
C4_Witness ==
    /\ ev.type = "moveDone" /\ ev.held > 0 /\ ev.cmd # "S"
    /\ phase = "COLLECT" /\ pins = stopMotors

\* C5: in backend mode there is one frame per completed sweep, each frame is
\* followed by exactly one readBackendCommand before any motor action, and no
\* second frame is sent before that read has returned and the Move has ended.
C5_StrictAlternation ==
    build \in {"BACKEND", "HEATMAP"} =>
        /\ obs.sent <= 1
        /\ obs.reads <= obs.sent
        /\ (pc = "await") <=> (obs.sent = 1 /\ obs.reads = 0)
        /\ (phase = "MOVE" \/ pins # stopMotors) => (obs.sent = 1 /\ obs.reads = 1)
        /\ (build = "BACKEND" => obs.sweeps = obs.sent)

\* The motors run in a backend-mode Move, after one frame and one read.
C5_Witness ==
    /\ build = "BACKEND" /\ phase = "MOVE" /\ pins # stopMotors
    /\ obs.sent = 1 /\ obs.reads = 1 /\ obs.sweeps = 1

\* The command a timed-out read is expected to give, from what was seen before.
orF(c) == IF c = "none" THEN "F" ELSE c

\* C6 (as stated): on timeout readBackendCommand returns the command the most
\* recent earlier exchange returned, or 'F' if there was none.
C6_TimeoutReturnsLastReturned ==
    (build = "BACKEND" /\ ev.type = "read" /\ ev.timedOut)
        => ev.cmd = orF(ev.prevReturned)

\* C6: on timeout readBackendCommand returns the last valid command byte
\* consumed from the serial input, by an earlier readBackendCommand or by the
\* read at the top of loop(), or 'F' if there was none; the timeout is not an
\* error: the cycle goes on into Move with that command.
C6_TimeoutReturnsLastConsumed ==
    (ev.type = "read" /\ ev.timedOut) =>
        /\ ev.cmd = orF(ev.prevValid)
        /\ (build = "BACKEND" => pendingMotorCmd = ev.cmd)
        /\ phase = "MOVE" /\ pc = "loop"

\* A timeout gives a command that the loop-top read took, not an exchange.
C6_Witness ==
    /\ build = "BACKEND" /\ ev.type = "read" /\ ev.timedOut
    /\ ev.prevValid # "none" /\ ev.prevValid # ev.prevReturned
    /\ ev.cmd = ev.prevValid

\* C7: readBackendCommand only returns one of F, B, L, R, S; it drops the
\* bytes that are none of these, returns the first that is, and leaves the
\* bytes after it unread; no other byte becomes pendingMotorCmd or backendCmd.
C7_OnlyValidCommands ==
    /\ pendingMotorCmd \in ValidCmds
    /\ backendCmd \in ValidCmds
    /\ ev.type = "read" =>
        /\ ev.cmd \in ValidCmds
        /\ \A i \in 1..Len(ev.dropped) : ev.dropped[i] \notin ValidCmds
        /\ IF ev.timedOut
           THEN ev.stream = ev.dropped /\ rx = <<>>
           ELSE ev.stream = ev.dropped \o <<ev.cmd>> \o rx

\* A read dropped a byte before it returned a command.
C7_Witness ==
    /\ build = "BACKEND" /\ ev.type = "read" /\ ~ev.timedOut
    /\ ev.dropped # <<>> /\ ev.cmd \in ValidCmds

\* C8: with the link lost (no byte ever arrives) every frame is followed by a
\* read that ends at the timeout, a Move with the last command that ends, and
\* a return to the sweep, again and again.
C8_LostLinkLiveness ==
    /\ []<>(build = "STANDALONE" \/ (ev.type = "step" /\ ev.sent /\ pc = "await"))
    /\ []<>(build = "STANDALONE"
            \/ (ev.type = "read" /\ ev.timedOut
                /\ ev.waited = BACKEND_CMD_TIMEOUT_MS /\ phase = "MOVE"))
    /\ []<>(build = "STANDALONE"
            \/ (ev.type = "moveDone" /\ phase = "COLLECT"
                /\ (build = "BACKEND" => ev.cmd = "F")))
    /\ (ev.type = "step" /\ ev.sent) ~> (ev.type = "read")
    /\ (ev.type = "read") ~> (ev.type = "moveDone")

\* A later exchange over the lost link timed out, as the one before it had.
C8_Witness ==
    /\ ~linkUp /\ build = "BACKEND"
    /\ ev.type = "read" /\ ev.timedOut /\ ev.prevReturned = "F"

\* C9 (as stated): in backend-driven mode the command a Move applies is the
\* one readBackendCommand returned for that cycle.
C9_MoveAppliesReturned ==
    (build \in {"BACKEND", "HEATMAP"} /\ ev.type \in {"moveHold", "moveDone"})
        => ev.cmd = obs.returned

\* C9: in robot_physical.ino the command a Move applies is the one
\* readBackendCommand returned for that cycle; in heat_mapping_robot.ino it is
\* that command unless the chunk holds a forward-cone reading under 25 cm, and
\* then it is the turn collisionAvoidance chose.
C9_MoveAppliesReturnedOrAvoidance ==
    ev.type \in {"moveHold", "moveDone"} =>
        /\ build = "BACKEND" => ev.cmd = obs.returned
        /\ build = "HEATMAP" =>
              ev.cmd = (IF obs.avoid = "none" THEN obs.returned ELSE obs.avoid)

\* A Move of heat_mapping_robot.ino drives a turn the host did not send.
C9_Witness ==
    /\ build = "HEATMAP" /\ ev.type = "moveHold"
    /\ obs.avoid # "none" /\ ev.cmd # obs.returned /\ pins # stopMotors

\* The first sector that holds the maximum of the profile, and its angle.
firstMaxSector(sw) ==
    CHOOSE i \in 0..(SWEEP_BINS - 1) :
        \A j \in 0..(SWEEP_BINS - 1) : sw[j] <= sw[i] /\ (j < i => sw[j] < sw[i])

recoveryTurn(sw) ==
    LET a == firstMaxSector(sw) * 30
    IN  IF a > 180 THEN a - 360 ELSE a

\* C10: of K = 3 consecutive decisions with forward under 15 cm, counted from
\* a zero stuck counter, the first two give the obstacle-avoidance turn (45
\* degrees, to the clearer side) and the third gives the recovery turn toward
\* the first maximum over all 12 sectors, whatever the other layers would say.
C10_StuckPriority ==
    (ev.type = "decide" /\ sanitize(ev.profile[0]) < STUCK_THRESHOLD_CM) =>
        /\ obs.streak \in 1..CONSECUTIVE_STUCK_FOR_SWEEP
        /\ obs.streak < CONSECUTIVE_STUCK_FOR_SWEEP =>
              /\ ev.layer = 2
              /\ Abs(ev.turn) = 45
              /\ ev.cmd = (IF sanitize(ev.profile[3]) > sanitize(ev.profile[9])
                           THEN "L" ELSE "R")
        /\ obs.streak = CONSECUTIVE_STUCK_FOR_SWEEP =>
              /\ ev.layer = 1
              /\ ev.turn = recoveryTurn(ev.profile)
              /\ ev.cmd = (IF ev.turn < 0 THEN "L" ELSE "R")
              /\ consecutiveObstacles = 0

\* The third stuck decision in a row, on forward 10, left 40, right 20.
C10_Witness ==
    /\ ev.type = "decide" /\ obs.streak = CONSECUTIVE_STUCK_FOR_SWEEP
    /\ ev.profile[0] = 10 /\ ev.profile[3] = 40 /\ ev.profile[9] = 20
    /\ ev.layer = 1 /\ ev.turn = 30 /\ ev.cmd = "R"

\* Whether the decision just taken is the K-th stuck one of its run.
kthStuck ==
    /\ sanitize(ev.profile[0]) < STUCK_THRESHOLD_CM
    /\ obs.streak = CONSECUTIVE_STUCK_FOR_SWEEP

\* C11: after every plannerDecide() call the stuck counter is in 0..K-1; it
\* is 0 after a call with forward >= 15 cm and after a call in which the
\* recovery fired; the recovery fires exactly in the K-th consecutive call
\* with forward < 15 cm since the counter was last 0.
C11_StuckCounter ==
    ev.type = "decide" =>
        /\ consecutiveObstacles \in 0..(CONSECUTIVE_STUCK_FOR_SWEEP - 1)
        /\ sanitize(ev.profile[0]) >= STUCK_THRESHOLD_CM => consecutiveObstacles = 0
        /\ ev.layer = 1 => consecutiveObstacles = 0
        /\ ev.layer = 1 <=> kthStuck
        /\ (sanitize(ev.profile[0]) < STUCK_THRESHOLD_CM /\ ~kthStuck)
              => consecutiveObstacles = obs.streak

\* The recovery fired on the K-th stuck call and left the counter at 0.
C11_Witness ==
    /\ ev.type = "decide" /\ kthStuck /\ ev.layer = 1
    /\ consecutiveObstacles = 0 /\ ev.stop = FALSE

\* index * 30 degrees brought into (-180, 180].
normalized(i) == CHOOSE a \in -179..180 : (a - i * 30) % 360 = 0

C13_ObstacleAvoidance ==
    (ev.type = "decide" /\ ~kthStuck
        /\ sanitize(ev.profile[0]) < OBSTACLE_THRESHOLD_CM) =>
        IF sanitize(ev.profile[3]) > sanitize(ev.profile[9])
        THEN ev.cmd = "L" /\ ev.turn = -45
        ELSE ev.cmd = "R" /\ ev.turn = 45

\* Forward 20, left 50, right 10 gave the left turn; the counter was not run up.
C13_Witness ==
    /\ ev.type = "decide" /\ ev.profile = sweepProfile(20, 50, 10)
    /\ ev.cmd = "L" /\ ev.turn = -45 /\ ev.layer = 2

\* C14: whenever forward >= 25 cm, with error = left - 30, the decision is
\* 'L' with -15 if error > 8, 'R' with +15 if error < -8, and 'F' with 0 for
\* every error in [-8, 8] (left = 38 and left = 22 both give 'F').
C14_WallFollowing ==
    (ev.type = "decide" /\ sanitize(ev.profile[0]) >= OBSTACLE_THRESHOLD_CM) =>
        LET error == sanitize(ev.profile[3]) - WALL_TARGET_CM
        IN  /\ error > WALL_TOLERANCE_CM => ev.cmd = "L" /\ ev.turn = -15
            /\ error < -WALL_TOLERANCE_CM => ev.cmd = "R" /\ ev.turn = 15
            /\ (error >= -WALL_TOLERANCE_CM /\ error <= WALL_TOLERANCE_CM)
                  => ev.cmd = "F" /\ ev.turn = 0

\* Forward 100 with left 38, the upper edge of the dead-band, gave Forward.
C14_Witness ==
    /\ ev.type = "decide" /\ ev.profile[0] = 100 /\ ev.profile[3] = 38
    /\ ev.cmd = "F" /\ ev.turn = 0

\* The duration tier of a turn magnitude.
tierOf(a) == IF a <= 20 THEN 150 ELSE IF a <= 50 THEN 400 ELSE 800

\* C15: the Move duration is 500 ms for Forward and Backward and for every
\* other command is the tier of |turnDeg| (<= 20: 150, <= 50: 400, else 800,
\* with 20 and 50 in the lower tier); the inline expression of the backend
\* build and turnDegToMs() of the standalone build give the same tiers.
C15_MoveDuration ==
    ev.type = "duration" =>
        /\ ev.fn = tierOf(Abs(ev.turn))
        /\ build = "BACKEND" =>
              ev.dur = (IF ev.cmd \in {"F", "B"} THEN 500 ELSE tierOf(Abs(ev.turn)))
        /\ (build = "STANDALONE" /\ ev.cmd \in {"F", "L", "R"}) =>
              ev.dur = (IF ev.cmd = "F" THEN 500 ELSE tierOf(Abs(ev.turn)))

\* A backend-build left turn of 50 degrees, the top of the middle tier.
C15_Witness ==
    /\ ev.type = "duration" /\ build = "BACKEND"
    /\ ev.cmd = "L" /\ ev.turn = -50 /\ ev.dur = 400 /\ ev.fn = 400

\* C16: every one of the 12 sweep_cm values lies in [2, 400] after any
\* sequence of sweep steps and initSweep() calls, whatever the echoes were, and
\* a zero (invalid) median is replaced by 150 before it is blended or stored.
C16_SectorBounds ==
    /\ \A i \in 0..(SWEEP_BINS - 1) : sweep_cm[i] >= 2 /\ sweep_cm[i] <= 400
    /\ (ev.type = "sweepStep" /\ ev.median = 0) => ev.dist = 150
    /\ ev.type = "sweepStep" => (ev.dist >= 2 /\ ev.dist <= 400)

\* A window without a valid echo was classified into sector 0, which holds 150.
C16_Witness ==
    /\ ev.type = "sweepStep" /\ ev.median = 0 /\ ev.bin = 0
    /\ ev.first /\ sweep_cm[0] = 150

\* C19: within one sweep the first sample classified into a sector is stored
\* by direct assignment and every later sample classified into that sector is
\* stored as 0.6 * previous + 0.4 * new, whatever the sample values in [2, 400].
C19_SectorBlending ==
    (ev.type = "sweepStep" /\ ev.bin >= 0) =>
        sweep_cm[ev.bin] = (IF ev.first THEN ev.dist
                            ELSE (6 * ev.prev + 4 * ev.dist) \div 10)

\* The sector the classification rule names for an angle, if any.
sectorsFor(a) ==
    (IF -15 <= a /\ a <= 15 THEN {0} ELSE {})
        \cup (IF a <= -75 THEN {3} ELSE {})
        \cup (IF a >= 75 THEN {9} ELSE {})

\* C20: a step at angle a modifies at most one sector - sector 0 iff
\* -15 <= a <= 15, sector 3 iff a <= -75, sector 9 iff a >= 75 - and leaves
\* every other sector unchanged; a step at an unmapped angle leaves all 12
\* unchanged; the nine sectors other than 0, 3 and 9 equal 150 in every state.
C20_ClassificationFrame ==
    /\ [](\A k \in (0..(SWEEP_BINS - 1)) \ {0, 3, 9} : sweep_cm[k] = 150)
    /\ [][ev'.type = "sweepStep" =>
            /\ (IF ev'.bin >= 0 THEN {ev'.bin} ELSE {}) = sectorsFor(currentAngle')
            /\ \A k \in 0..(SWEEP_BINS - 1) :
                   k \notin sectorsFor(currentAngle') => sweep_cm'[k] = sweep_cm[k]
            /\ sectorsFor(currentAngle') = {} => sweep_cm' = sweep_cm]_vars

\* A step at +80 degrees has just written sector 9; sectors 0 and 3 keep what
\* earlier steps of the sweep stored.
C20_Witness ==
    /\ ev.type = "sweepStep" /\ ev.angle = 80 /\ ev.bin = 9
    /\ sweep_cm[9] = 2 /\ sweep_cm[0] = 2 /\ sweep_cm[3] = 400

\* All 12 sectors hold the far sentinel and the raw-reading buffer is empty.
freshSweep(sw, cnt) == cnt = 0 /\ \A i \in 0..(SWEEP_BINS - 1) : sw[i] = 150

\* C17: at every entry into COLLECT_SWEEP (from setup, from Move and from
\* StabilizeStop), hence at the first step of every sweep cycle, the 12 sectors
\* are 150 and polarCount is 0; and the profile and the raw readings change
\* only in a sweep step or in that reset, so the profile the planner reads is
\* the one the completing step left, read in the very next pass and once.
C17_ResetAtEveryEntry ==
    /\ []((build # "HEATMAP" /\ ev.type = "setup") =>
             (phase = "COLLECT" /\ freshSweep(sweep_cm, polarCount)))
    /\ [][build # "HEATMAP" =>
            /\ (phase # "COLLECT" /\ phase' = "COLLECT") =>
                   (phase \in {"MOVE", "STOP_SAMPLE"}
                    /\ freshSweep(sweep_cm', polarCount'))
            /\ (ev'.type = "step" /\ ev.type \in {"setup", "moveDone", "stopDone"}) =>
                   freshSweep(sweep_cm, polarCount)
            /\ (sweep_cm' # sweep_cm \/ polarCount' # polarCount) =>
                   (ev'.type = "step" \/ (phase # "COLLECT" /\ phase' = "COLLECT"))
            /\ phase = "DECIDE" => (ev.type = "step" /\ ev.done)
            /\ ev'.type = "decide" =>
                   (phase = "DECIDE" /\ phase' # "DECIDE"
                    /\ ev'.profile = sweep_cm /\ sweep_cm' = sweep_cm)
            /\ (ev'.type = "step" /\ ev'.sent) => ev'.done]_vars

\* StabilizeStop has just handed over to COLLECT_SWEEP in a scene whose sweep
\* had filled the sectors: they are back at 150.
C17_Witness ==
    /\ build = "STANDALONE" /\ ev.type = "stopDone" /\ phase = "COLLECT"
    /\ scene = Scene(10, 40, 20) /\ pendingMotorCmd # "F"
    /\ freshSweep(sweep_cm, polarCount)

\* C18: the raw-reading buffers never overflow.  robot_physical.ino:
\* polarCount stays in 0..20 and a reading is written only at an index below
\* 20, however many steps the sweep takes.  heat_mapping_robot.ino: bufferIdx
\* is in 0..7 at every write to buffer[], and is back at 0 after each chunk of
\* 8 readings was sent.
C18_BuffersNeverOverflow ==
    /\ [](polarCount \in 0..20)
    /\ []((build = "HEATMAP" /\ pc = "loop") => bufferIdx \in 0..7)
    /\ [][/\ polarCount' # polarCount =>
                (polarCount' = 0 \/ (polarCount' = polarCount + 1 /\ polarCount <= 19))
          /\ (build = "HEATMAP" /\ ev'.type = "step") =>
                /\ bufferIdx \in 0..7
                /\ Len(buffer) = bufferIdx
                /\ bufferIdx' = bufferIdx + 1
                /\ ev'.sent <=> bufferIdx' = 8
          /\ (build = "HEATMAP" /\ ev'.type = "read") =>
                (bufferIdx = 8 /\ bufferIdx' = 0)]_vars

\* A backend sweep is past its 20th step and not complete: the buffer is full
\* and the step just taken stored nothing.
C18_Witness ==
    /\ build = "BACKEND" /\ ev.type = "step" /\ ~ev.done
    /\ polarCount = 20 /\ stepCount >= 25

\* A Command has just been produced: plannerDecide() or readBackendCommand()
\* returned in this step.
produced(e) == e.type \in {"decide", "read"}

\* What robot_physical.ino does with a produced Command, apart from where the
\* producing pass goes: a Move phase begins only with a freshly produced
\* Command, every pass of the phase applies that Command, the pending Command
\* changes only when one is produced, and STOP_SAMPLE never leads to Move.
commandLifecycle ==
    /\ (phase' = "MOVE" /\ phase # "MOVE") =>
           (produced(ev') /\ pendingMotorCmd' = ev'.cmd)
    /\ (phase = "MOVE" /\ ev'.type # "host") =>
           /\ ev'.type \in {"moveHold", "moveDone"}
           /\ ev'.cmd = pendingMotorCmd
           /\ phase' \in {"MOVE", "COLLECT"}
    /\ pendingMotorCmd' # pendingMotorCmd => produced(ev')
    /\ phase = "STOP_SAMPLE" => phase' \in {"STOP_SAMPLE", "COLLECT"}

\* C21: every Command produced by plannerDecide() or readBackendCommand() is
\* consumed in exactly one Move phase before the next Command is produced:
\* none is dropped, none is applied in two cycles.
C21_EveryCommandConsumedOnce ==
    [][build # "HEATMAP" =>
          /\ produced(ev') => (phase' = "MOVE" /\ pendingMotorCmd' = ev'.cmd)
          /\ commandLifecycle]_vars

\* C21 as the code has it: a Command is consumed in exactly one Move phase
\* before the next is produced, except the Command of a Decide that routes to
\* STOP_SAMPLE (standalone), which is never applied: the dwell returns to
\* COLLECT_SWEEP and the next Decide replaces it.
C21_ConsumedOnceUnlessStopSample ==
    [][build # "HEATMAP" =>
          /\ produced(ev') =>
                /\ pendingMotorCmd' = ev'.cmd
                /\ IF build = "STANDALONE" /\ ev'.stop
                   THEN phase' = "STOP_SAMPLE"
                   ELSE phase' = "MOVE"
          /\ commandLifecycle]_vars

\* A Decide has produced a turn and routed to STOP_SAMPLE: the turn is pending
\* and will not be applied.
C21_Witness ==
    /\ build = "STANDALONE" /\ ev.type = "decide" /\ ev.stop
    /\ phase = "STOP_SAMPLE" /\ pendingMotorCmd = "L" /\ pins = stopMotors

\* C30: when the recovery fires and the best sector of the scan is index 3
\* (left) the turn is -90 degrees with TurnLeft, and when it is index 9 (right)
\* the turn is +90 degrees with TurnRight: the convention of the
\* obstacle-avoidance layer, where the larger left distance gives TurnLeft.
C30_RecoveryDirectionConvention ==
    (ev.type = "decide" /\ kthStuck) =>
        LET i == firstMaxSector(ev.profile)
        IN  /\ i = 3 => (ev.turn = -90 /\ ev.cmd = "L")
            /\ i = 9 => (ev.turn = 90 /\ ev.cmd = "R")

\* C26: after every step currentAngle is in [-90, 90] and 10 degrees from
\* the previous angle; sweepDirection flips exactly in the steps that reach
\* -90 or +90; the servo target is 90 - currentAngle, in [0, 180], 180 at -90
\* and 0 at +90.
C26_TriangleWave ==
    [][ev'.type = "sweepStep" =>
          /\ currentAngle' >= -90 /\ currentAngle' <= 90
          /\ Abs(currentAngle' - currentAngle) = 10
          /\ (sweepDirection' # sweepDirection) <=> (currentAngle' \in {-90, 90})
          /\ ev'.servo = 90 - currentAngle'
          /\ ev'.servo >= 0 /\ ev'.servo <= 180
          /\ currentAngle' = -90 => ev'.servo = 180
          /\ currentAngle' = 90 => ev'.servo = 0]_vars

\* The step that reached +90: the direction is now downward, the servo at 0.
C26_Witness ==
    /\ ev.type = "sweepStep" /\ currentAngle = 90 /\ ~sweepDirection
    /\ ev.servo = 0

\* C27: applyMotorCmd(cmd) sets (IN1, IN2, IN3, IN4) to (L,H,L,H) for 'F',
\* (H,L,H,L) for 'B', (L,H,H,L) for 'L', (H,L,L,H) for 'R' and all LOW for 'S'
\* and for every other byte, whatever the outputs were; each output is LOW or
\* HIGH.
C27_MotorOutputs ==
    ev.type = "motor" =>
        /\ pins = (IF ev.cmd = "F" THEN <<LOW, HIGH, LOW, HIGH>>
                   ELSE IF ev.cmd = "B" THEN <<HIGH, LOW, HIGH, LOW>>
                   ELSE IF ev.cmd = "L" THEN <<LOW, HIGH, HIGH, LOW>>
                   ELSE IF ev.cmd = "R" THEN <<HIGH, LOW, LOW, HIGH>>
                   ELSE <<LOW, LOW, LOW, LOW>>)
        /\ \A i \in 1..4 : pins[i] \in {LOW, HIGH}

\* A lower-case 'f' arrived while the robot was turning left: all outputs LOW.
C27_Witness ==
    /\ ev.type = "motor" /\ ev.cmd = "f"
    /\ ev.before = <<LOW, HIGH, HIGH, LOW>>
    /\ pins = <<LOW, LOW, LOW, LOW>>

\* The valid values of a window, in arrival order.
inRange(cm) == cm >= 2 /\ cm <= 400
validOf(w) == SelectSeq(w, inRange)

\* The k-th smallest value of a non-empty sequence.
kthSmallest(s, k) ==
    CHOOSE v \in {s[i] : i \in 1..Len(s)} :
        /\ Cardinality({i \in 1..Len(s) : s[i] < v}) < k
        /\ Cardinality({i \in 1..Len(s) : s[i] <= v}) >= k

\* Twice the true median of a non-empty sequence: for an even length the sum
\* of the two middle values.
twiceMedian(s) ==
    LET n == Len(s)
    IN  IF n % 2 = 1 THEN 2 * kthSmallest(s, (n + 1) \div 2)
        ELSE kthSmallest(s, n \div 2) + kthSmallest(s, (n \div 2) + 1)

\* C25: for every window with at least one valid value readDistanceCmMedian()
\* returns the true median of the valid values (the mean of the two middle
\* values when their number is even), whatever the order of the samples and
\* wherever the invalid ones fall; it returns 0 exactly when none is valid.
C25_TrueMedian ==
    ev.type = "median" =>
        LET v == validOf(ev.window)
        IN  IF v = <<>> THEN ev.median = 0
            ELSE ev.median # 0 /\ 2 * ev.median = twiceMedian(v)

\* C29: in the standalone build the n-th execution of Decide routes to
\* STOP_SAMPLE exactly when n - 1 is a positive multiple of 10 (the 11th, never
\* the first); in STOP_SAMPLE the motors are off, the phase is held until 2000
\* ms have passed since entry, and the pass that finds them passed resets the
\* sweep and returns to COLLECT_SWEEP, not to Move.
C29_StopSampleSchedule ==
    /\ []((build = "STANDALONE" /\ ev.type = "decide" /\ obs.decides <= MaxMoveCount) =>
             /\ ev.stop <=> ((obs.decides - 1) > 0 /\ (obs.decides - 1) % 10 = 0)
             /\ ev.stop <=> phase = "STOP_SAMPLE"
             /\ ~ev.stop <=> phase = "MOVE")
    /\ [](phase = "STOP_SAMPLE" => pins = <<LOW, LOW, LOW, LOW>>)
    /\ [][phase = "STOP_SAMPLE" =>
            IF sincePhaseStart >= 2000
            THEN /\ phase' = "COLLECT"
                 /\ polarCount' = 0
                 /\ \A i \in 0..(SWEEP_BINS - 1) : sweep_cm'[i] = 150
                 /\ pins' = <<LOW, LOW, LOW, LOW>>
            ELSE phase' = "STOP_SAMPLE" /\ sincePhaseStart' > sincePhaseStart]_vars

\* The 11th Decide has routed to STOP_SAMPLE.
C29_Witness ==
    /\ build = "STANDALONE" /\ ev.type = "decide" /\ obs.decides = 11
    /\ ev.stop /\ phase = "STOP_SAMPLE" /\ sincePhaseStart = 0

\* C22: the DHT sensor is queried only when at least 2000 ms have passed
\* since the previous attempt, successful or not; a failed (NaN) read of the
\* temperature or of the humidity leaves that field as it was, whatever the
\* other read gave; a field that holds a number never goes back to NaN.
C22_EnvironmentSampling ==
    /\ [](ev.type \in {"dht", "send"} =>
             /\ ev.queried => ev.since >= 2000
             /\ ~ev.queried => (lastTempC = ev.prevT /\ lastHumPct = ev.prevH)
             /\ (ev.queried /\ ev.t = NaN) => lastTempC = ev.prevT
             /\ (ev.queried /\ ev.h = NaN) => lastHumPct = ev.prevH
             /\ (ev.queried /\ ev.t # NaN) => lastTempC = ev.t
             /\ (ev.queried /\ ev.h # NaN) => lastHumPct = ev.h)
    /\ [][/\ lastTempC # NaN => lastTempC' # NaN
          /\ lastHumPct # NaN => lastHumPct' # NaN
          /\ (ev'.type \in {"dht", "send"} /\ ev'.queried) => sinceDhtRead >= 2000]_vars

\* A query in which the temperature read failed and the humidity read did not:
\* the temperature read earlier is kept, the humidity is the new one.
C22_Witness ==
    /\ ev.type = "dht" /\ ev.queried /\ ev.t = NaN /\ ev.h = 4005
    /\ ev.prevT = 2150 /\ lastTempC = 2150 /\ lastHumPct = 4005

\* C23: an uplink frame contains air_temp_c (humidity_pct) exactly when a
\* temperature (humidity) read has succeeded before the frame was built; a
\* frame built before any successful read has neither field.
C23_EnvFieldsIffRead ==
    (ev.type = "send" /\ ~ev.overflowed) =>
        /\ ("air_temp_c" \in frame.keys) <=> obs.tempRead
        /\ ("humidity_pct" \in frame.keys) <=> obs.humRead

\* C24: when building the frame overflows the JSON document, the frame sent
\* holds timestamp_ms and an empty readings list and nothing else; a line is
\* written all the same, and the pass goes on to the downlink read and then to
\* PHASE_MOVE as it does after a frame that did not overflow.
C24_OverflowMinimalFrame ==
    /\ [](ev.type = "send" =>
             /\ ev.overflowed =>
                    /\ frame.keys = {"timestamp_ms", "readings"}
                    /\ frame.readings = <<>>
                    /\ DOMAIN frame.num = {}
             /\ "timestamp_ms" \in frame.keys /\ "readings" \in frame.keys
             /\ obs.sent >= 1
             /\ pc = "await")
    /\ [][(ev.type = "send") =>
             (ev'.type = "read" /\ pc' = "loop" /\ phase' = "MOVE" /\ frame' = frame)]_vars

\* A frame that overflowed while both environment fields were known and the
\* sweep had filled polarReadings.
C24_Witness ==
    /\ ev.type = "send" /\ ev.overflowed
    /\ lastTempC # NaN /\ lastHumPct # NaN
    /\ polarReadings # <<>>
    /\ frame.readings = <<>>

\* x in hundredths, p in tenths: p is x rounded to one decimal place, a half
\* going away from zero.
toOneDecimal(x, p) ==
    /\ Abs((10 * p) - x) <= 5
    /\ Abs((10 * p) - x) = 5 => Abs(10 * p) > Abs(x)

\* The readings a frame was built from.
frameSource == IF build = "HEATMAP" THEN buffer ELSE polarReadings

\* C28: every angle and distance of a frame, parsed back, is the original
\* rounded to one decimal place, and the readings of the frame are in the order
\* of capture.
C28_UplinkRoundTrip ==
    (ev.type = "send" /\ ~ev.overflowed) =>
        /\ Len(frame.readings) <= Len(frameSource)
        /\ \A i \in 1..Len(frame.readings) :
              /\ toOneDecimal(frameSource[i].angle, parseNumber(frame.readings[i].angle))
              /\ toOneDecimal(frameSource[i].distance,
                              parseNumber(frame.readings[i].distance))

\* A frame of eight readings in which 12.35 cm went out as 12.4, 12.34 cm as
\* 12.3 and -80 degrees as -80.0.
C28_Witness ==
    /\ ev.type = "send" /\ ~ev.overflowed /\ build = "BACKEND"
    /\ Len(frame.readings) = BACKEND_READINGS_MAX
    /\ polarReadings[1].angle = -8000 /\ parseNumber(frame.readings[1].angle) = -800
    /\ polarReadings[1].distance = 1234 /\ parseNumber(frame.readings[1].distance) = 123
    /\ polarReadings[2].distance = 1235 /\ parseNumber(frame.readings[2].distance) = 124

\* Whether the frame holds exactly the first n readings of polarReadings, one
\* frame entry per reading, in the order of capture.
frameIsPrefix(n) ==
    /\ Len(frame.readings) = n
    /\ \A i \in 1..n :
          /\ toOneDecimal(polarReadings[i].angle, parseNumber(frame.readings[i].angle))
          /\ toOneDecimal(polarReadings[i].distance,
                          parseNumber(frame.readings[i].distance))

\* The count min(polarCount, 8), written without readingsToSend.
firstEight == CHOOSE n \in 0..BACKEND_READINGS_MAX :
                  /\ n <= polarCount
                  /\ \A m \in 0..BACKEND_READINGS_MAX : m <= polarCount => m <= n

\* C31 as stated: every frame of sendBackendPayload() carries exactly the
\* first min(polarCount, 8) readings of the sweep, in capture order, and never
\* more than 8.
C31_FirstEightInEveryFrame ==
    (ev.type = "send" /\ build = "BACKEND") =>
        /\ Len(frame.readings) <= BACKEND_READINGS_MAX
        /\ frameIsPrefix(firstEight)

\* C31: a frame of sendBackendPayload() never carries more than 8 readings;
\* one built without overflow carries exactly the first min(polarCount, 8)
\* readings of the sweep in capture order, one that overflowed carries none;
\* the readings captured after the eighth are in no frame.
C31_FirstEightUnlessOverflow ==
    (ev.type = "send" /\ build = "BACKEND") =>
        /\ Len(frame.readings) <= BACKEND_READINGS_MAX
        /\ polarCount = Len(polarReadings)
        /\ ~ev.overflowed => frameIsPrefix(firstEight)
        /\ ev.overflowed => frameIsPrefix(0)

\* A sweep of 18 readings whose ninth differs from all the first eight went
\* out as a frame of eight.
C31_Witness ==
    /\ ev.type = "send" /\ build = "BACKEND" /\ ~ev.overflowed
    /\ polarCount = 18
    /\ Len(frame.readings) = 8
    /\ \A i \in 1..8 : polarReadings[9].angle # polarReadings[i].angle

\* C32: a command byte that readBackendCommand() returns for a frame was
\* received after that frame was sent: when the call follows the send at once
\* and returns a byte it read, no valid byte was waiting in the serial input
\* when the frame went out.
C32_ReplyFreshness ==
    [][(/\ build = "BACKEND"
        /\ pc = "await"
        /\ ev.type = "step"
        /\ ev'.type = "read"
        /\ ~ev'.timedOut)
       => \A i \in 1..Len(rx) : ~isCmdByte(rx[i])]_vars

\* A loop() pass of the BACKEND build, outside readBackendCommand().
backendPass == build = "BACKEND" /\ pc = "loop" /\ ev'.type \in {"step", "moveHold", "moveDone"}

\* C33: a loop() pass of the BACKEND build takes at most one byte from the
\* serial input outside readBackendCommand(); a valid byte taken there goes to
\* backendCmd and to nothing else, an invalid one changes nothing; the command
\* and turn of the Move, its end (when the time since phaseStartMs reaches the
\* duration of the pending command) and its motor outputs do not depend on it.
C33_LoopTopReadFrame ==
    [][backendPass =>
        /\ rx = <<>> =>
              /\ backendCmd' = backendCmd
              /\ Len(rx') <= 1
        /\ rx # <<>> =>
              /\ Len(rx') >= Len(rx) - 1
              /\ SubSeq(rx', 1, Len(rx) - 1) = Tail(rx)
              /\ backendCmd' = IF Head(rx) \in {"F", "B", "L", "R", "S"}
                               THEN Head(rx) ELSE backendCmd
        /\ pendingMotorCmd' = pendingMotorCmd
        /\ pendingTurnDeg' = pendingTurnDeg
        /\ phase = "COLLECT" => phase' = "COLLECT"
        /\ phase = "MOVE" =>
              LET expired == sincePhaseStart >=
                                 moveDuration("BACKEND", pendingMotorCmd, pendingTurnDeg)
              IN  /\ phase' = IF expired THEN "COLLECT" ELSE "MOVE"
                  /\ pins' = IF expired THEN stopMotors ELSE applyMotorCmd(pendingMotorCmd)
                  /\ ~expired => sincePhaseStart' > sincePhaseStart]_vars

\* A Move still in progress on 'F' after the loop-top read has put 'L' into
\* backendCmd: the outputs are those of 'F'.
C33_Witness ==
    /\ build = "BACKEND" /\ ev.type = "moveHold" /\ phase = "MOVE"
    /\ pendingMotorCmd = "F" /\ backendCmd = "L"
    /\ pins = applyMotorCmd("F")

\* C34: on every profile a sweep leaves, plannerDecide() returns F, L or R,
\* with L exactly for a negative turn, R exactly for a positive turn and F
\* exactly for no turn.
C34_DecisionConsistent ==
    ev.type = "decide" =>
        /\ ev.cmd \in {"F", "L", "R"}
        /\ (ev.cmd = "L") <=> (ev.turn < 0)
        /\ (ev.cmd = "R") <=> (ev.turn > 0)
        /\ (ev.cmd = "F") <=> (ev.turn = 0)

\* The stuck recovery on a swept profile whose forward sector is the lowest:
\* the first sector holding the maximum is sector 1, a turn of +30 with 'R'.
C34_Witness ==
    /\ ev.type = "decide" /\ ev.layer = 1
    /\ ev.profile[0] < STUCK_THRESHOLD_CM
    /\ ev.turn = 30 /\ ev.cmd = "R"

C36_NoChannelBothHigh ==
    /\ ~(pins[1] = HIGH /\ pins[2] = HIGH)
    /\ ~(pins[3] = HIGH /\ pins[4] = HIGH)

\* Halfway through the stopMotors() that ends a left turn: side A is already
\* off, IN3 is still HIGH.
C36_Witness ==
    /\ writing.queue = <<stopMotors>> /\ writing.done = 2
    /\ pendingMotorCmd = "L"
    /\ pins = <<LOW, LOW, HIGH, LOW>>

\* C37: once the cleanup of the effect has run, no reconnect timer is pending
\* and no WebSocket is opened any more; while the component is mounted each
\* close of the socket schedules one reconnect, 2000 ms later, and no timer was
\* pending before it.
C37_SocketLifecycle ==
    /\ ~dash.mounted => (dash.timer = NoTimer /\ dash.lateOpens = 0)
    /\ (ev.type = "sockClose" /\ ev.mounted) =>
          (ev.timerBefore = NoTimer /\ dash.timer = 2000)

====
